---- MODULE Spec2Model ----
(***************************************************************************)
(* Dungeon game core: Weapon, Player, Enemy and the per-frame update of    *)
(* GameView, modelled from src/my_sprites.py and src/my_game.py.           *)
(*                                                                         *)
(* Geometry.  Entities live on one row of the map; only the x coordinate   *)
(* is tracked, in grid cells.  Time is counted in update ticks (the code   *)
(* subtracts the constant 1/60 s per update).                              *)
(***************************************************************************)
EXTENDS Integers, Sequences, FiniteSets, TLC

\* ------------------------------------------------------------------ bounds
\* Weapon.data[type]["range"] in grid cells
Range == 2
\* Weapon.data[type]["rate"] in update ticks (rate / (1/60))
RateTicks == 2
\* Weapon.data[type]["max_usage"] of the finite weapon modelled
MaxUses == 2
\* random.random() seconds, in update ticks: a drawn timer lasts 1..MaxTimer
\* updates (a draw of 0.0 lasts one update, like any draw up to 1/60)
MaxTimer == 2
\* mover: speeds 1..MaxSpeed per tick, paths of 1..MaxK waypoints spaced
\* 1..MaxGrid apart
MaxSpeed == 2
MaxK == 3
MaxGrid == 3
\* Weapon objects constructed for one player
MaxWeapons == 2
\* the highest map number reached
MaxMap == 3

\* ------------------------------------------------------- program constants
\* Direction enum (degrees)
UP == 0
RIGHT == 90
DOWN == 180
LEFT == 270
\* Weapon.data[WeaponType.SWORD_SHORT]["strength"]
Strength == 7
\* Enemy.__init__ default max_hp, Player.__init__ default max_hp
EnemyMaxHp == 10
PlayerMaxHp == 10
\* Enemy.__init__ default speed (cells per update)
EnemySpeed == 1
\* Player.__init__ default speed
PlayerSpeed == 2
\* Enemy.__init__ roaming_dist, in grid cells
RoamDist == 1

Max(a, b) == IF a >= b THEN a ELSE b
Min(a, b) == IF a <= b THEN a ELSE b
Abs(a) == IF a >= 0 THEN a ELSE -a
Sgn(a) == IF a > 0 THEN 1 ELSE IF a < 0 THEN -1 ELSE 0

\* math.sin / math.cos of the four axis directions
Sin(angle) == IF angle = RIGHT THEN 1 ELSE IF angle = LEFT THEN -1 ELSE 0
Cos(angle) == IF angle = UP THEN 1 ELSE IF angle = DOWN THEN -1 ELSE 0

\* arcade.get_angle_radians(x1, y, x2, y) on a common row: atan2(x2 - x1, 0)
AngleTo(x1, x2) == IF x2 > x1 THEN RIGHT ELSE IF x2 < x1 THEN LEFT ELSE UP

\* window.width in grid cells: world x coordinates are 0..WorldW-1
WorldW == Range + 2
Cells == 0..(WorldW - 1)

\* ------------------------------------------------------------------ Weapon
\* A hitbox location: x on the entities' row, or off that row (onrow = FALSE)
NoPoint == [set |-> FALSE, x |-> 0, onrow |-> TRUE]

\* the nullable attack_point field read by GameView.on_update
SetAttackPoint(w, pt) == [w EXCEPT !.point = pt]

\* Weapon.__init__
NewWeapon ==
    SetAttackPoint([left |-> MaxUses, tti |-> 0, killed |-> FALSE,
                    point |-> NoPoint], NoPoint)

\* Weapon.is_idle
IsIdleEarly(w) == w.tti <= 1
is_idle(w) == w.tti <= 0

\* centre of the hitbox: position + (sin(angle), cos(angle)) * range
HitboxCentre(position, angle) ==
    [set |-> TRUE, x |-> position + Sin(angle) * Range, onrow |-> Cos(angle) = 0]

\* Weapon.attack: the new weapon and the value returned
\* ("None" is the implicit return of the branch taken while not idle)
WeaponAttackUnchecked(w, position, angle) ==
    IF is_idle(w)
    THEN [w |-> SetAttackPoint([w EXCEPT !.left = @ - 1, !.tti = RateTicks],
                               HitboxCentre(position, angle)),
          ret |-> "True"]
    ELSE [w |-> w, ret |-> "None"]
WeaponAttackNoDecrement(w, position, angle) ==
    IF is_idle(w)
    THEN IF w.left <= 0
         THEN [w |-> [w EXCEPT !.killed = TRUE], ret |-> "False"]
         ELSE [w |-> SetAttackPoint([w EXCEPT !.tti = RateTicks],
                                    HitboxCentre(position, angle)),
               ret |-> "True"]
    ELSE [w |-> w, ret |-> "None"]
WeaponAttackKillFirst(w, position, angle) ==
    IF w.left <= 0
    THEN [w |-> [w EXCEPT !.killed = TRUE], ret |-> "False"]
    ELSE IF is_idle(w)
         THEN [w |-> SetAttackPoint([w EXCEPT !.left = @ - 1, !.tti = RateTicks],
                                    HitboxCentre(position, angle)),
               ret |-> "True"]
         ELSE [w |-> w, ret |-> "None"]
WeaponAttack(w, position, angle) ==
    IF is_idle(w)
    THEN IF w.left <= 0
         THEN [w |-> [w EXCEPT !.killed = TRUE], ret |-> "False"]
         ELSE [w |-> SetAttackPoint([w EXCEPT !.left = @ - 1, !.tti = RateTicks],
                                    HitboxCentre(position, angle)),
               ret |-> "True"]
    ELSE [w |-> w, ret |-> "None"]

\* Weapon.update
WeaponUpdateTwice(w) == IF ~is_idle(w) THEN [w EXCEPT !.tti = @ - 2] ELSE w
WeaponUpdate(w) == IF ~is_idle(w) THEN [w EXCEPT !.tti = @ - 1] ELSE w

\* ------------------------------------------------------------------ Player
\* p.collides_with_point(point): the point lies in the sprite's hit box
HitHalf == Range - 1
collides_with_point(pos, pt) == pt.set /\ pt.onrow /\ Abs(pt.x - pos) <= HitHalf

\* Player.__init__: full hp, facing RIGHT, no key held, the default weapon
\* added and equipped
NewPlayer(position) ==
    [hp |-> PlayerMaxHp, pos |-> position, dir |-> RIGHT,
     left_pressed |-> FALSE, right_pressed |-> FALSE,
     equiped |-> TRUE, weapon |-> NewWeapon]

\* Player.hp (getter and setter)
PlayerHpGet(p) == p.hp
PlayerHpSet(p, new_hp) == [p EXCEPT !.hp = Max(0, Min(new_hp, PlayerMaxHp))]

\* Player.attack: the new player and the value returned
PlayerAttackAlwaysReacts(p) ==
    IF p.equiped /\ is_idle(p.weapon)
    THEN LET success == WeaponAttack(p.weapon, p.pos, p.dir)
         IN  [p |-> [p EXCEPT !.weapon = success.w],
              react |-> IF success.ret = "True" THEN <<"ANGRY">> ELSE <<"SAD">>,
              ret |-> TRUE]
    ELSE [p |-> p, react |-> <<"SAD">>, ret |-> FALSE]

\* Player.attack: the player after the call, the reactions emitted, the
\* value returned
PlayerAttack(p) ==
    IF p.equiped /\ is_idle(p.weapon)
    THEN LET success == WeaponAttack(p.weapon, p.pos, p.dir)
         IN  [p |-> [p EXCEPT !.weapon = success.w],
              react |-> IF success.ret = "True" THEN <<"ANGRY">> ELSE <<"SAD">>,
              ret |-> TRUE]
    ELSE [p |-> p, react |-> << >>, ret |-> FALSE]

\* Player.on_key_press for the keys left, right and attack
PlayerKeyPress(p, key) ==
    CASE key = "left" -> [p EXCEPT !.left_pressed = TRUE, !.dir = LEFT]
      [] key = "right" -> [p EXCEPT !.right_pressed = TRUE, !.dir = RIGHT]
      [] key = "attack" -> PlayerAttack(p).p

\* Player.on_key_release
PlayerKeyRelease(p, key) ==
    CASE key = "left" -> [p EXCEPT !.left_pressed = FALSE]
      [] key = "right" -> [p EXCEPT !.right_pressed = FALSE]
      [] OTHER -> p

\* Player.update, the speed set from the held keys.  It is written on
\* every update and read only by the physics step of the same frame, so it
\* is computed where it is read instead of being stored.
change_x(p) ==
    IF p.left_pressed /\ ~p.right_pressed THEN -PlayerSpeed
    ELSE IF p.right_pressed /\ ~p.left_pressed THEN PlayerSpeed
    ELSE 0

\* Player.update: weapon timer and durability check
PlayerUpdateKeepsWeapon(p) ==
    LET w1 == IF p.equiped THEN WeaponUpdate(p.weapon) ELSE p.weapon
    IN  [p EXCEPT !.weapon = w1]
PlayerUpdate(p) ==
    LET w1 == IF p.equiped THEN WeaponUpdate(p.weapon) ELSE p.weapon
    IN  [p EXCEPT !.weapon = w1,
                  !.equiped = IF p.equiped /\ w1.left <= 0 THEN FALSE ELSE @]

\* ------------------------------------------------------------------- Enemy
\* Enemy.__init__: full hp, ROAMING, no target, no path, random timers
NewEnemy(position, max_hp, calc, pause) ==
    [max |-> max_hp, hp |-> max_hp, pos |-> position, state |-> "ROAMING",
     tracking |-> FALSE, path |-> << >>, cur |-> 0,
     calc |-> calc, pause |-> pause, alive |-> TRUE, speed |-> EnemySpeed,
     equipped |-> TRUE, weapon |-> NewWeapon]

\* Enemy.hp (getter and setter)
EnemyHpGet(e) == e.max
EnemyHpSetNoFloor(e, new_hp) == [e EXCEPT !.hp = Min(new_hp, e.max)]
EnemyHpSet(e, new_hp) == [e EXCEPT !.hp = Max(0, Min(new_hp, e.max))]

\* arcade.astar_calculate_path on the row: the cells from start to end, or
\* no path (found = FALSE, barriers are an input)
AStarPath(start, end, found) ==
    IF found
    THEN [i \in 1..(Abs(end - start) + 1) |-> start + Sgn(end - start) * (i - 1)]
    ELSE << >>

\* Enemy.go_to_position
go_to_positionNoReset(e, target_pos, found) ==
    [e EXCEPT !.path = AStarPath(e.pos, target_pos, found)]

go_to_positionKeepsCursor(e, target_pos, found) ==
    [e EXCEPT !.path = AStarPath(e.pos, target_pos, found),
              !.cur = IF found THEN 0 ELSE @]

go_to_position(e, target_pos, found) ==
    [e EXCEPT !.path = AStarPath(e.pos, target_pos, found), !.cur = 0]

move_along_pathUnitStep(e) ==
    IF e.path = << >> THEN e
    ELSE LET dest_pos == e.path[e.cur + 1]
             distance_to_dest == Abs(dest_pos - e.pos)
             this_move_length == Min(1, distance_to_dest)
         IN  IF distance_to_dest <= e.speed
             THEN [e EXCEPT !.cur = @ + 1,
                            !.path = IF e.cur + 1 = Len(e.path) THEN << >> ELSE @]
             ELSE [e EXCEPT !.pos = @ + Sgn(dest_pos - e.pos) * this_move_length]

move_along_pathStepAndAdvance(e) ==
    IF e.path = << >> THEN e
    ELSE LET dest_pos == e.path[e.cur + 1]
             distance_to_dest == Abs(dest_pos - e.pos)
             this_move_length == Min(e.speed, distance_to_dest)
         IN  IF distance_to_dest <= e.speed
             THEN [e EXCEPT !.pos = dest_pos,
                            !.cur = @ + 1,
                            !.path = IF e.cur + 1 = Len(e.path) THEN << >> ELSE @]
             ELSE [e EXCEPT !.pos = @ + Sgn(dest_pos - e.pos) * this_move_length]

move_along_pathResetsCursor(e) ==
    IF e.path = << >> THEN e
    ELSE LET dest_pos == e.path[e.cur + 1]
             distance_to_dest == Abs(dest_pos - e.pos)
             this_move_length == Min(e.speed, distance_to_dest)
         IN  IF distance_to_dest <= e.speed
             THEN IF e.cur + 1 = Len(e.path)
                  THEN [e EXCEPT !.cur = 0, !.path = << >>]
                  ELSE [e EXCEPT !.cur = @ + 1]
             ELSE [e EXCEPT !.pos = @ + Sgn(dest_pos - e.pos) * this_move_length]

\* Enemy.move_along_path
move_along_path(e) ==
    IF e.path = << >> THEN e
    ELSE LET dest_pos == e.path[e.cur + 1]
             distance_to_dest == Abs(dest_pos - e.pos)
             this_move_length == Min(e.speed, distance_to_dest)
         IN  IF distance_to_dest <= e.speed
             THEN [e EXCEPT !.cur = @ + 1,
                            !.path = IF e.cur + 1 = Len(e.path) THEN << >> ELSE @]
             ELSE [e EXCEPT !.pos = @ + Sgn(dest_pos - e.pos) * this_move_length]

\* Enemy.update, state control for the one potential target p
EnemyEvaluate(e, p, in) ==
    LET seen == IF in.vis
                THEN [e EXCEPT !.tracking = TRUE, !.state = "CHASING"]
                ELSE IF e.tracking
                     THEN [go_to_position(e, p.pos, in.found)
                             EXCEPT !.tracking = FALSE, !.state = "SEARCHING"]
                     ELSE e
    IN  [seen EXCEPT !.calc = in.timer]

ChaseAttackOnTarget(e, p) ==
    LET angle_to_target == AngleTo(e.pos, p.pos)
        position == e.pos + Sin(angle_to_target) * e.speed
    IN  IF p.pos = position
        THEN WeaponAttack(e.weapon, position, angle_to_target)
        ELSE [w |-> e.weapon, ret |-> "-"]

\* Enemy.update, chasing state: the call of the equipped weapon's attack,
\* from the position after the step, at the angle to the target
ChaseAttack(e, p) ==
    LET angle_to_target == AngleTo(e.pos, p.pos)
        position == e.pos + Sin(angle_to_target) * e.speed
    IN  WeaponAttack(e.weapon, position, angle_to_target)

\* Enemy.update, chasing state: step towards the target and attack
EnemyChase(e, p) ==
    LET angle_to_target == AngleTo(e.pos, p.pos)
        moved == [e EXCEPT !.path = << >>,
                           !.pos = @ + Sin(angle_to_target) * e.speed]
    IN  IF moved.equipped
        THEN [moved EXCEPT !.weapon = ChaseAttack(e, p).w]
        ELSE moved

EnemyBehaveRoamsAtOnce(e, p, in) ==
    CASE e.state = "CHASING" -> EnemyChase(e, p)
      [] e.state = "SEARCHING" ->
            IF e.path # << >>
            THEN LET m == move_along_path(e)
                 IN  IF m.path = << >> THEN [m EXCEPT !.state = "ROAMING"] ELSE m
            ELSE [e EXCEPT !.state = "ROAMING"]
      [] e.state = "ROAMING" ->
            IF e.path # << >> THEN move_along_path(e)
            ELSE go_to_position(e, in.dest, in.found)

\* Enemy.update, the three state branches
EnemyBehave(e, p, in) ==
    CASE e.state = "CHASING" -> EnemyChase(e, p)
      [] e.state = "SEARCHING" ->
            IF e.path # << >> THEN move_along_path(e)
            ELSE [e EXCEPT !.state = "ROAMING"]
      [] e.state = "ROAMING" ->
            IF e.path # << >> THEN move_along_path(e)
            ELSE go_to_position(e, in.dest, in.found)

\* Enemy.update, removal at hp <= 0, weapon timer and durability check
EnemyFinish(e) ==
    LET dead == [e EXCEPT !.alive = IF EnemyHpGet(e) <= 0 THEN FALSE ELSE @]
    IN  IF dead.equipped
        THEN LET w1 == WeaponUpdate(dead.weapon)
             IN  [dead EXCEPT !.weapon = w1,
                              !.equipped = IF w1.left <= 0 THEN FALSE ELSE @]
        ELSE dead

\* how an Enemy.update ends: "run" (returns), or the exception or
\* non-termination that ends the program
BehaveOutcome(e1, p) ==
    IF e1.state = "CHASING" /\ ~e1.tracking THEN "AttributeError"
    ELSE IF e1.state = "CHASING" /\ e1.pos = p.pos THEN "offrow"
    ELSE IF e1.state # "CHASING" /\ e1.path # << >> /\ e1.cur >= Len(e1.path)
         THEN "IndexError"
    ELSE IF e1.state = "ROAMING" /\ e1.path = << >>
            /\ \A d \in Cells : Abs(d - e1.pos) <= RoamDist THEN "hang"
    ELSE "run"

EnemyOutcome(e, p, in) ==
    LET evaluates == e.calc - 1 <= 0
        e1 == IF evaluates THEN EnemyEvaluate(e, p, in) ELSE e
    IN  IF e.pause > 0 THEN "run"
        ELSE IF evaluates /\ e.pos = p.pos THEN "ZeroDivisionError"
        ELSE BehaveOutcome(e1, p)

\* Enemy.state setter: the reaction it emits
Reaction(old_state, new_state) ==
    IF old_state # new_state /\ new_state = "CHASING" THEN "alert"
    ELSE IF old_state # new_state /\ new_state = "ROAMING" THEN "lost interest"
    ELSE "none"

Emit(sig, reaction) == IF reaction = "none" THEN sig ELSE Append(sig, reaction)

\* Enemy.update, state control with a list of potential targets: the body
\* of the loop for target number t.  a.e is the enemy, a.cur_target the
\* number of the tracked target (0: None), a.targets the targets'
\* positions, a.sig the reactions emitted, a.dest the destinations planned
EvaluateOneKeepsTarget(a, t, visible, found) ==
    IF visible
    THEN [a EXCEPT !.cur_target = t,
                   !.e = [@ EXCEPT !.tracking = TRUE, !.state = "CHASING"],
                   !.sig = Emit(@, Reaction(a.e.state, "CHASING"))]
    ELSE IF a.cur_target # 0
         THEN [a EXCEPT !.e = [go_to_position(a.e, a.targets[a.cur_target], found)
                                 EXCEPT !.tracking = FALSE, !.state = "SEARCHING"],
                        !.sig = Emit(@, Reaction(a.e.state, "SEARCHING")),
                        !.dest = Append(@, a.targets[a.cur_target])]
         ELSE a

EvaluateOneKeepsState(a, t, visible, found) ==
    IF visible
    THEN [a EXCEPT !.cur_target = t,
                   !.e = [@ EXCEPT !.tracking = TRUE, !.state = "CHASING"],
                   !.sig = Emit(@, Reaction(a.e.state, "CHASING"))]
    ELSE IF a.cur_target # 0
         THEN [a EXCEPT !.cur_target = 0,
                        !.e = [go_to_position(a.e, a.targets[a.cur_target], found)
                                 EXCEPT !.tracking = FALSE],
                        !.dest = Append(@, a.targets[a.cur_target])]
         ELSE a

EvaluateOne(a, t, visible, found) ==
    IF visible
    THEN [a EXCEPT !.cur_target = t,
                   !.e = [@ EXCEPT !.tracking = TRUE, !.state = "CHASING"],
                   !.sig = Emit(@, Reaction(a.e.state, "CHASING"))]
    ELSE IF a.cur_target # 0
         THEN [a EXCEPT !.cur_target = 0,
                        !.e = [go_to_position(a.e, a.targets[a.cur_target], found)
                                 EXCEPT !.tracking = FALSE, !.state = "SEARCHING"],
                        !.sig = Emit(@, Reaction(a.e.state, "SEARCHING")),
                        !.dest = Append(@, a.targets[a.cur_target])]
         ELSE a

\* the loop over the targets from number t on
RECURSIVE EvaluateFrom(_, _, _, _)
EvaluateFrom(a, t, seen, found) ==
    IF t > Len(a.targets) THEN a
    ELSE EvaluateFrom(EvaluateOne(a, t, t \in seen, found), t + 1, seen, found)

\* the target the chasing branch reads
TrackedTarget(a) ==
    [pos |-> IF a.cur_target # 0 THEN a.targets[a.cur_target] ELSE a.e.pos]

\* the destinations the ROAMING branch of one update passes to
\* go_to_position
RoamPlan(e, in) ==
    IF e.state = "ROAMING" /\ e.path = << >> THEN <<in.dest>> ELSE << >>

\* Enemy.update with a list of targets, up to the behaviour branches:
\* timer, state control
AiEvaluateEveryTick(a, in) ==
    LET a0 == [a EXCEPT !.e.calc = @ - 1, !.sig = << >>, !.dest = << >>]
    IN  [EvaluateFrom(a0, 1, in.seen, in.found) EXCEPT !.e.calc = in.timer]

AiEvaluate(a, in) ==
    LET a0 == [a EXCEPT !.e.calc = @ - 1, !.sig = << >>, !.dest = << >>,
                        !.roam = << >>]
    IN  IF a0.e.calc <= 0
        THEN [EvaluateFrom(a0, 1, in.seen, in.found) EXCEPT !.e.calc = in.timer]
        ELSE a0

\* how such an update ends
AiOutcome(a, in) ==
    IF a.e.pause > 0 THEN "run"
    ELSE IF a.e.calc - 1 <= 0 /\ \E t \in 1..Len(a.targets) : a.targets[t] = a.e.pos
         THEN "ZeroDivisionError"
    ELSE BehaveOutcome(AiEvaluate(a, in).e, TrackedTarget(AiEvaluate(a, in)))

\* Enemy.update with a list of targets
AiUpdate(a, in) ==
    IF a.e.pause > 0
    THEN [a EXCEPT !.e.pause = @ - 1, !.sig = << >>, !.dest = << >>, !.roam = << >>]
    ELSE LET a1 == AiEvaluate(a, in)
             e2 == EnemyFinish(EnemyBehave(a1.e, TrackedTarget(a1), in))
         IN  [a1 EXCEPT !.e = e2, !.sig = Emit(@, Reaction(a1.e.state, e2.state)),
                        !.roam = RoamPlan(a1.e, in)]

\* the members of the enumeration EnemyState
EnemyStates == {"ROAMING", "SEARCHING", "CHASING"}

\* handler_enemy_enemy: the comparison with EnemyState.RANDOM_WALK looks
\* the member up in the enumeration before any force is applied
handler_enemy_enemy(enemy1, enemy2) ==
    IF "RANDOM_WALK" \in EnemyStates THEN "run" ELSE "AttributeError"

\* the target positions one Enemy.update reads: in the line-of-sight
\* test of the state control and in the chase step
EnemyReads(e, p, in) ==
    LET e0 == [e EXCEPT !.calc = @ - 1]
        e1 == IF e0.calc <= 0 THEN EnemyEvaluate(e0, p, in) ELSE e0
    IN  IF e.pause <= 0 /\ (e0.calc <= 0 \/ e1.state = "CHASING")
        THEN {p.pos} ELSE {}

\* what the weapon's attack returned to one Enemy.update, "-" when the
\* update did not call it
EnemyAttempt(e, p, in) ==
    LET e0 == [e EXCEPT !.calc = @ - 1]
        e1 == IF e0.calc <= 0 THEN EnemyEvaluate(e0, p, in) ELSE e0
    IN  IF e.pause <= 0 /\ e1.state = "CHASING" /\ e1.equipped
        THEN ChaseAttack(e1, p).ret ELSE "-"

EnemyUpdatePausedTimers(e, p, in) ==
    IF e.pause > 0 THEN [e EXCEPT !.pause = @ - 1, !.calc = @ - 1]
    ELSE LET e0 == [e EXCEPT !.calc = @ - 1]
             e1 == IF e0.calc <= 0 THEN EnemyEvaluate(e0, p, in) ELSE e0
         IN  EnemyFinish(EnemyBehave(e1, p, in))

\* Enemy.update
EnemyUpdate(e, p, in) ==
    IF e.pause > 0 THEN [e EXCEPT !.pause = @ - 1]
    ELSE LET e0 == [e EXCEPT !.calc = @ - 1]
             e1 == IF e0.calc <= 0 THEN EnemyEvaluate(e0, p, in) ELSE e0
         IN  EnemyFinish(EnemyBehave(e1, p, in))

\* ------------------------------------------------------- GameView.on_update
\* the combat pass for the pair (p, e); equipped_weapon names the owner's
\* equipped / equiped weapon
ResolveNoClear(p, e) ==
    LET eHits == e.equipped /\ e.weapon.point.set
                 /\ collides_with_point(p.pos, e.weapon.point)
        p1 == IF eHits THEN PlayerHpSet(p, PlayerHpGet(p) - Strength) ELSE p
        e1 == e
        pHits == p1.equiped /\ p1.weapon.point.set
                 /\ collides_with_point(e1.pos, p1.weapon.point)
        e2 == IF pHits THEN EnemyHpSet(e1, EnemyHpGet(e1) - Strength) ELSE e1
        p2 == p1
    IN  [p |-> p2, e |-> e2]
ResolveResetsCooldown(p, e) ==
    LET eHits == e.equipped /\ e.weapon.point.set
                 /\ collides_with_point(p.pos, e.weapon.point)
        p1 == IF eHits THEN PlayerHpSet(p, PlayerHpGet(p) - Strength) ELSE p
        e1 == IF eHits THEN [e EXCEPT !.weapon = [SetAttackPoint(@, NoPoint) EXCEPT !.tti = 0]]
              ELSE e
        pHits == p1.equiped /\ p1.weapon.point.set
                 /\ collides_with_point(e1.pos, p1.weapon.point)
        e2 == IF pHits THEN EnemyHpSet(e1, EnemyHpGet(e1) - Strength) ELSE e1
        p2 == IF pHits THEN [p1 EXCEPT !.weapon = [SetAttackPoint(@, NoPoint) EXCEPT !.tti = 0]]
              ELSE p1
    IN  [p |-> p2, e |-> e2]

\* GameView.on_update, the two collision checks for one player and one
\* enemy
Resolve(p, e) ==
    LET eHits == e.equipped /\ e.weapon.point.set
                 /\ collides_with_point(p.pos, e.weapon.point)
        p1 == IF eHits THEN PlayerHpSet(p, PlayerHpGet(p) - Strength) ELSE p
        e1 == IF eHits THEN [e EXCEPT !.weapon = SetAttackPoint(@, NoPoint)] ELSE e
        pHits == p1.equiped /\ p1.weapon.point.set
                 /\ collides_with_point(e1.pos, p1.weapon.point)
        e2 == IF pHits THEN EnemyHpSet(e1, EnemyHpGet(e1) - Strength) ELSE e1
        p2 == IF pHits THEN [p1 EXCEPT !.weapon = SetAttackPoint(@, NoPoint)] ELSE p1
    IN  [p |-> p2, e |-> e2]

\* the combat pass over all players (outer loop) and all enemies (inner
\* loop), pair k of Len(ps) * Len(es) onwards; hits counts, per attacker,
\* the hp subtractions made with its attack point
RECURSIVE ResolvePairs(_, _, _, _)
ResolvePairs(ps, es, hits, k) ==
    IF k >= Len(ps) * Len(es) THEN [ps |-> ps, es |-> es, hits |-> hits]
    ELSE LET i == (k \div Len(es)) + 1
             j == (k % Len(es)) + 1
             eHit == es[j].equipped /\ collides_with_point(ps[i].pos, es[j].weapon.point)
             pHit == ps[i].equiped /\ collides_with_point(es[j].pos, ps[i].weapon.point)
             r == Resolve(ps[i], es[j])
         IN  ResolvePairs([ps EXCEPT ![i] = r.p], [es EXCEPT ![j] = r.e],
                          [p |-> [hits.p EXCEPT ![i] = IF pHit THEN @ + 1 ELSE @],
                           e |-> [hits.e EXCEPT ![j] = IF eHit THEN @ + 1 ELSE @]],
                          k + 1)

\* physics_engine.step(): the player's body moves by its speed inside the map
PhysicsMove(p) ==
    IF p.pos + change_x(p) \in Cells THEN [p EXCEPT !.pos = @ + change_x(p)] ELSE p

\* ------------------------------------------------------------------- state
VARIABLES
    mode,     \* which program runs: "game" (GameView), or a unit driven
              \* directly: "weapon" (one Weapon), "hp" (the hp properties)
    halt,     \* "run", or the exception / non-termination that ended the game
    player,   \* the Player
    enemy,    \* the Enemy
    last,     \* the handler or call that ran last
    hist,     \* history: ptested / etested, the owner's latest successful
              \* attack had its point examined by a combat pass; psince,
              \* frames since the player's latest successful attack;
              \* pattack, what Player.attack returned and emitted in the
              \* handler that ran last; eread, the target positions the
              \* enemy's update read in the frame that ran last; eattack,
              \* what its weapon's attack returned in that update
    w,        \* the Weapon driven directly
    wres,     \* value returned by the last direct call
    wsince,   \* Weapon.update calls since the last successful direct attack
    wok,      \* successful direct attacks so far
    entity,   \* an Entity: its _cur_hp and the error its setter raised
    ai,       \* mode "ai": one enemy (e) with its list of potential targets
              \* (targets, their positions), the number of the tracked target
              \* (cur_target, 0: None), the reactions (sig), the
              \* destinations planned for a lost target (dest) and for
              \* roaming (roam) in its last update; history: seen, the
              \* targets in line of sight at that update, evaluated, whether
              \* it ran the state control, after, the state control's result
    mv,       \* mode "mover": an enemy (e) following a path; history: the
              \* path as planned, the number of move_along_path calls so
              \* far (ticks)
    sc,       \* mode "scenario": an armed enemy (e) of speed 5 at 0 and its
              \* visible target at 100; centre, the x of the centre of its
              \* weapon's sprite; history: chased, its chase steps so far
              \* (counted to 2)
    fog,      \* mode "fog": the position of the first player (pos), the
              \* line-of-sight tiles marked seen (seen); history: caught,
              \* the tiles whose query raised in the last draw
    rm,       \* mode "roam": the sampling loop of the ROAMING branch of one
              \* enemy: its position (pos) and roaming_dist, where it is (pc:
              \* "sampling" in the loop, "planned" after go_to_position),
              \* the point drawn last (next_pos); history: rejected, whether
              \* the loop has refused a point since it was entered
    inv,      \* mode "inventory": the weapons of one player: objs, the
              \* Weapon objects made so far (type, state w), numbered in the
              \* order of their construction; weapons, the number of the
              \* object carried under each type (0: type not carried);
              \* equiped, the number of the object in use (0: None);
              \* history: ret, the value the last call returned
    hb,       \* mode "health": a player's hp and the health of its health
              \* bar
    gs,       \* mode "state": the level_clear flag and the map number of
              \* the GameState
    rs        \* mode "resolver": the players ps and the enemies es of one
              \* combat pass, and hits, the hp subtractions made with each
              \* attacker's latest successful attack

vars ==
    <<mode, last, halt, player, enemy, hist, w, wres, wsince, wok, entity, ai, mv,
      sc, fog, rm, inv, hb, gs, rs>>

\* no call of Player.attack in the handler that ran last
NoAttack == [called |-> FALSE, react |-> << >>, ret |-> FALSE]

gameVars == <<halt, player, enemy, hist>>
weaponVars == <<w, wres, wsince, wok>>

\* max_hp values the repository constructs enemies with
\* (my_game.py: 5, Enemy.__init__ default: 10)
EnemyMaxHps == {5, EnemyMaxHp}

\* Entity.__init__
NewEntity == [cur_hp |-> PlayerMaxHp, max |-> PlayerMaxHp, err |-> "none"]

\* Entity.cur_hp setter: assigns to the property it defines, so it calls
\* itself until the interpreter raises RecursionError; _cur_hp is never written
EntityCurHpSet(en, new_hp) == [en EXCEPT !.err = "RecursionError"]

\* Enemy.__init__ with the default equipped_weapon (None) and a list of
\* potential targets
NewAi(targets, calc) ==
    [e |-> [NewEnemy(WorldW - 1, EnemyMaxHp, calc, 1) EXCEPT !.equipped = FALSE],
     cur_target |-> 0, targets |-> targets, sig |-> << >>, dest |-> << >>,
     roam |-> << >>,
     seen |-> {}, evaluated |-> FALSE,
     after |-> [state |-> "ROAMING", cur_target |-> 0, path |-> << >>]]

\* the lists of potential targets modelled: positions in list order
TargetLists == {<<0>>, <<0, 1>>, <<1, 0>>}

\* an enemy of speed s at the start of a path of k waypoints spaced grid
\* apart, as go_to_position leaves it
NewMover(s, k, grid) ==
    [e |-> [NewEnemy(0, EnemyMaxHp, 1, 0) EXCEPT
              !.speed = s, !.equipped = FALSE,
              !.path = [i \in 1..k |-> (i - 1) * grid], !.cur = 0],
     planned |-> [i \in 1..k |-> (i - 1) * grid],
     ticks |-> 0]

\* an enemy of speed 5 at the origin, unpaused, with a target 100 away
\* Player.__init__: _hp = max_hp, HealthBar(max_health=max_hp)
NewHealth == [hp |-> PlayerMaxHp, health |-> PlayerMaxHp]

\* HealthBar.health setter with max_health = PlayerMaxHp
HealthBarSet(health, new_health) ==
    IF 0 < new_health /\ new_health < PlayerMaxHp THEN new_health ELSE health

\* GameState._setup_physics_engine: the flag is cleared, then the loaded
\* map is validated; valid, the map passes the assertions
SetupKeepsClear(g, valid) == g
_setup_physics_engine(g, valid) == [g EXCEPT !.level_clear = FALSE]

\* GameState.__init__
NewGameState(map_no) ==
    _setup_physics_engine([level_clear |-> FALSE, map_no |-> map_no], TRUE)

\* GameState.next_map
next_map(g, valid) == _setup_physics_engine([g EXCEPT !.map_no = @ + 1], valid)

\* GameState._handler_player_exit
_handler_player_exit(g) == [g EXCEPT !.level_clear = TRUE]

\* two of the WeaponType members
WeaponTypes == {"SWORD_SHORT", "SWORD_LONG"}

\* Player.equip
equip(v, type) ==
    IF v.weapons[type] # 0
    THEN [v EXCEPT !.equiped = v.weapons[type], !.ret = "True"]
    ELSE [v EXCEPT !.ret = "False"]

\* Player.add_weapon
add_weapon(v, type) ==
    LET v1 == [v EXCEPT !.objs = Append(@, [type |-> type, w |-> NewWeapon]),
                        !.weapons[type] = Len(v.objs) + 1,
                        !.ret = "None"]
    IN  IF v1.equiped = 0 THEN [equip(v1, type) EXCEPT !.ret = "None"] ELSE v1

\* Player.__init__: no weapons, none in use, then the default weapon added
NewInventory ==
    add_weapon([objs |-> << >>, weapons |-> [t \in WeaponTypes |-> 0],
                equiped |-> 0, ret |-> "None"], "SWORD_SHORT")

\* the player of v as Player.attack sees it
Wielder(v) ==
    [NewPlayer(1) EXCEPT !.equiped = v.equiped # 0,
                         !.weapon = IF v.equiped # 0 THEN v.objs[v.equiped].w
                                    ELSE NewWeapon]

\* Player.attack on the weapon in use
InventoryAttack(v) ==
    LET r == PlayerAttack(Wielder(v))
    IN  [v EXCEPT !.objs = IF v.equiped # 0
                           THEN [@ EXCEPT ![v.equiped].w = r.p.weapon] ELSE @,
                  !.ret = IF r.ret THEN "True" ELSE "False"]

\* Player.update: the weapon in use is updated, and put away once it has
\* no attacks left
InventoryUpdate(v) ==
    IF v.equiped = 0 THEN [v EXCEPT !.ret = "None"]
    ELSE LET w1 == WeaponUpdate(v.objs[v.equiped].w)
         IN  [v EXCEPT !.objs[v.equiped].w = w1,
                       !.equiped = IF w1.left <= 0 THEN 0 ELSE @,
                       !.ret = "None"]

\* Enemy.__init__ roaming_dist: any distance up to more than the world's
\* width
RoamDists == 0..WorldW

NewRoam(position, roaming_dist) ==
    [pos |-> position, roaming_dist |-> roaming_dist, pc |-> "sampling",
     next_pos |-> position, rejected |-> FALSE]

\* the test of the sampling loop: the point is not too close
FarEnoughOrEqual(r, next_pos) == Abs(next_pos - r.pos) >= r.roaming_dist
FarEnough(r, next_pos) == Abs(next_pos - r.pos) > r.roaming_dist

\* GameView.__init__: line-of-sight tiles start unseen
NewFog(position) == [pos |-> position, seen |-> {}, caught |-> {}]

\* arcade.has_line_of_sight as the guarded call describes it: the query
\* fails when the two points are at distance 0; clear, no wall between the
\* points and the tile in sight range
has_line_of_sight(point_1, point_2, clear) ==
    IF point_1 = point_2 THEN "ZeroDivisionError"
    ELSE IF clear THEN "True" ELSE "False"

\* the line-of-sight layer of GameView.on_draw: a seen tile is drawn, an
\* unseen tile in line of sight of the first player is marked seen, and a
\* ZeroDivisionError of the query is passed over
DrawFog(f, clear) ==
    [f EXCEPT
       !.seen = @ \cup {s \in Cells \ f.seen :
                          has_line_of_sight(s, f.pos, s \in clear) = "True"},
       !.caught = {s \in Cells \ f.seen :
                      has_line_of_sight(s, f.pos, s \in clear) = "ZeroDivisionError"}]

NewScenario ==
    [e |-> [NewEnemy(0, EnemyMaxHp, 1, 0) EXCEPT !.speed = 5],
     target |-> 100, centre |-> 0, chased |-> 0]

InitCommon ==
    /\ halt = "run"
    /\ last = "init"
    /\ hist = [ptested |-> TRUE, etested |-> TRUE, psince |-> RateTicks,
               pattack |-> NoAttack, eread |-> {}, eattack |-> "-"]
    /\ w = NewWeapon
    /\ wres = "-"
    /\ wsince = RateTicks
    /\ wok = 0
    /\ entity = NewEntity
    /\ rs = [ps |-> <<NewPlayer(1), NewPlayer(0)>>,
             es |-> <<NewEnemy(2, EnemyMaxHp, 1, 1), NewEnemy(3, EnemyMaxHp, 1, 1)>>,
             hits |-> [p |-> <<0, 0>>, e |-> <<0, 0>>]]

\* GameView.on_show_view: the player and the enemy on their spawn points
InitGame ==
    /\ mode = "game"
    /\ InitCommon
    /\ ai = NewAi(<<0>>, 1)
    /\ mv = NewMover(1, 1, 1)
    /\ sc = NewScenario
    /\ fog = NewFog(1)
    /\ rm = NewRoam(1, RoamDist)
    /\ inv = NewInventory
    /\ hb = NewHealth
    /\ gs = NewGameState(0)
    /\ player = NewPlayer(1)
    /\ \E m \in EnemyMaxHps, c \in 1..MaxTimer, z \in 1..MaxTimer :
          enemy = NewEnemy(WorldW - 1, m, c, z)

InitUnit ==
    /\ mode \in {"weapon", "hp", "resolver"}
    /\ InitCommon
    /\ ai = NewAi(<<0>>, 1)
    /\ mv = NewMover(1, 1, 1)
    /\ sc = NewScenario
    /\ fog = NewFog(1)
    /\ rm = NewRoam(1, RoamDist)
    /\ inv = NewInventory
    /\ hb = NewHealth
    /\ gs = NewGameState(0)
    /\ player = NewPlayer(1)
    /\ \E m \in EnemyMaxHps : enemy = NewEnemy(WorldW - 1, m, 1, 1)

\* one enemy and its potential targets
InitAi ==
    /\ mode = "ai"
    /\ InitCommon
    /\ player = NewPlayer(1)
    /\ enemy = NewEnemy(WorldW - 1, EnemyMaxHp, 1, 1)
    /\ \E targets \in TargetLists, c \in 1..MaxTimer : ai = NewAi(targets, c)
    /\ mv = NewMover(1, 1, 1)
    /\ sc = NewScenario
    /\ fog = NewFog(1)
    /\ rm = NewRoam(1, RoamDist)
    /\ inv = NewInventory
    /\ hb = NewHealth
    /\ gs = NewGameState(0)

\* one enemy with a planned path
InitMover ==
    /\ mode = "mover"
    /\ InitCommon
    /\ player = NewPlayer(1)
    /\ enemy = NewEnemy(WorldW - 1, EnemyMaxHp, 1, 1)
    /\ ai = NewAi(<<0>>, 1)
    /\ \E s \in 1..MaxSpeed, k \in 1..MaxK, grid \in 1..MaxGrid :
          mv = NewMover(s, k, grid)
    /\ sc = NewScenario
    /\ fog = NewFog(1)
    /\ rm = NewRoam(1, RoamDist)
    /\ inv = NewInventory
    /\ hb = NewHealth
    /\ gs = NewGameState(0)

\* the game with keys that stay held across frames; player and enemy
\* carry no weapon
InitHeld ==
    /\ mode = "held"
    /\ InitCommon
    /\ ai = NewAi(<<0>>, 1)
    /\ mv = NewMover(1, 1, 1)
    /\ sc = NewScenario
    /\ fog = NewFog(1)
    /\ rm = NewRoam(1, RoamDist)
    /\ inv = NewInventory
    /\ hb = NewHealth
    /\ gs = NewGameState(0)
    /\ player = [NewPlayer(1) EXCEPT !.equiped = FALSE]
    /\ \E c \in 1..MaxTimer :
          enemy = [NewEnemy(WorldW - 1, EnemyMaxHp, c, 1) EXCEPT !.equipped = FALSE]

\* the enemy and its far target
InitScenario ==
    /\ mode = "scenario"
    /\ InitCommon
    /\ player = NewPlayer(1)
    /\ enemy = NewEnemy(WorldW - 1, EnemyMaxHp, 1, 1)
    /\ ai = NewAi(<<0>>, 1)
    /\ mv = NewMover(1, 1, 1)
    /\ \E c \in 1..MaxTimer : sc = [NewScenario EXCEPT !.e.calc = c]
    /\ fog = NewFog(1)
    /\ rm = NewRoam(1, RoamDist)
    /\ inv = NewInventory
    /\ hb = NewHealth
    /\ gs = NewGameState(0)

\* a loaded map: every line-of-sight tile unseen, the player on a spawn
\* point
InitFog ==
    /\ mode = "fog"
    /\ InitCommon
    /\ player = NewPlayer(1)
    /\ enemy = NewEnemy(WorldW - 1, EnemyMaxHp, 1, 1)
    /\ ai = NewAi(<<0>>, 1)
    /\ mv = NewMover(1, 1, 1)
    /\ sc = NewScenario
    /\ \E position \in Cells : fog = NewFog(position)
    /\ rm = NewRoam(1, RoamDist)
    /\ inv = NewInventory
    /\ hb = NewHealth
    /\ gs = NewGameState(0)

\* a ROAMING enemy without a path, somewhere in the world, entering the
\* sampling loop of its update
InitRoam ==
    /\ mode = "roam"
    /\ InitCommon
    /\ player = NewPlayer(1)
    /\ enemy = NewEnemy(WorldW - 1, EnemyMaxHp, 1, 1)
    /\ ai = NewAi(<<0>>, 1)
    /\ mv = NewMover(1, 1, 1)
    /\ sc = NewScenario
    /\ fog = NewFog(1)
    /\ \E position \in Cells, roaming_dist \in RoamDists :
          rm = NewRoam(position, roaming_dist)
    /\ inv = NewInventory
    /\ hb = NewHealth
    /\ gs = NewGameState(0)

\* Player.__init__: hp and health bar at max_hp
InitHealth ==
    /\ mode = "health"
    /\ InitCommon
    /\ player = NewPlayer(1)
    /\ enemy = NewEnemy(WorldW - 1, EnemyMaxHp, 1, 1)
    /\ ai = NewAi(<<0>>, 1)
    /\ mv = NewMover(1, 1, 1)
    /\ sc = NewScenario
    /\ fog = NewFog(1)
    /\ rm = NewRoam(1, RoamDist)
    /\ inv = NewInventory
    /\ hb = NewHealth
    /\ gs = NewGameState(0)

\* GameState.__init__ for a first map that passes the validation
InitState ==
    /\ mode = "state"
    /\ InitCommon
    /\ player = NewPlayer(1)
    /\ enemy = NewEnemy(WorldW - 1, EnemyMaxHp, 1, 1)
    /\ ai = NewAi(<<0>>, 1)
    /\ mv = NewMover(1, 1, 1)
    /\ sc = NewScenario
    /\ fog = NewFog(1)
    /\ rm = NewRoam(1, RoamDist)
    /\ inv = NewInventory
    /\ hb = NewHealth
    /\ \E map_no \in 0..1 : gs = NewGameState(map_no)

\* Player.__init__
InitInventory ==
    /\ mode = "inventory"
    /\ InitCommon
    /\ player = NewPlayer(1)
    /\ enemy = NewEnemy(WorldW - 1, EnemyMaxHp, 1, 1)
    /\ ai = NewAi(<<0>>, 1)
    /\ mv = NewMover(1, 1, 1)
    /\ sc = NewScenario
    /\ fog = NewFog(1)
    /\ rm = NewRoam(1, RoamDist)
    /\ inv = NewInventory
    /\ hb = NewHealth
    /\ gs = NewGameState(0)

Init ==
    \/ InitGame \/ InitUnit \/ InitAi \/ InitMover \/ InitHeld \/ InitScenario
    \/ InitFog \/ InitRoam \/ InitInventory \/ InitHealth \/ InitState

\* ------------------------------------------------------------ game actions
Running == mode \in {"game", "held"} /\ halt = "run"

\* the history kept across a key handler
KeyHist == [hist EXCEPT !.eread = {}, !.eattack = "-", !.pattack = NoAttack]

\* the window delivers the press of a movement key
KeyPress(key) ==
    /\ Running
    /\ mode = "held"
    /\ player' = PlayerKeyPress(player, key)
    /\ hist' = KeyHist
    /\ last' = "on_key_press"
    /\ UNCHANGED <<mode, halt, enemy, weaponVars, entity, ai, mv, sc, fog, rm, inv, hb, gs, rs>>

\* the window delivers the release of a movement key
KeyRelease(key) ==
    /\ Running
    /\ mode = "held"
    /\ player' = PlayerKeyRelease(player, key)
    /\ hist' = KeyHist
    /\ last' = "on_key_release"
    /\ UNCHANGED <<mode, halt, enemy, weaponVars, entity, ai, mv, sc, fog, rm, inv, hb, gs, rs>>

Attacked(old, new) == new.left < old.left

\* the window delivers a key press and the key's release between two
\* frames (keys are tapped: none is held down across a frame)
KeyTap(key) ==
    /\ Running
    /\ mode = "game"
    /\ player' = PlayerKeyRelease(PlayerKeyPress(player, key), key)
    /\ hist' = [IF Attacked(player.weapon, player'.weapon)
                THEN [hist EXCEPT !.ptested = FALSE, !.psince = 0]
                ELSE hist
                  EXCEPT !.eread = {}, !.eattack = "-",
                         !.pattack =
                    IF key = "attack"
                    THEN [called |-> TRUE,
                          react |-> PlayerAttack(player).react,
                          ret |-> PlayerAttack(player).ret]
                    ELSE NoAttack]
    /\ last' = key
    /\ UNCHANGED <<mode, halt, enemy, weaponVars, entity, ai, mv, sc, fog, rm, inv, hb, gs, rs>>

\* values drawn inside one Enemy.update: has_line_of_sight's result, the
\* random.random() timer, the random roaming destination, whether A* finds
\* a path
EnemyInputs ==
    [vis : BOOLEAN, timer : 1..MaxTimer, dest : Cells, found : BOOLEAN]

\* the draws an update of e does not make are fixed, so that each behaviour
\* of the update is generated once
Drawn(e, in) ==
    LET evaluates == e.alive /\ e.pause <= 0 /\ e.calc - 1 <= 0
        plans == e.alive /\ e.pause <= 0
                 /\ \/ evaluates /\ ~in.vis /\ e.tracking
                    \/ (~evaluates \/ ~in.vis) /\ ~e.tracking
                       /\ e.state = "ROAMING" /\ e.path = << >>
        roams == plans /\ ~e.tracking
    IN  /\ evaluates \/ (in.vis = FALSE /\ in.timer = 1)
        /\ plans \/ in.found = FALSE
        /\ IF roams /\ \E d \in Cells : Abs(d - e.pos) > RoamDist
           THEN Abs(in.dest - e.pos) > RoamDist
           ELSE in.dest = 0

\* GameView.on_update: the combat pass, p.update(), the enemies' update and
\* physics_engine.step(), in that order.  An exception raised by the
\* enemy's update leaves on_update before the physics step.
on_updateCombatLast(p, e, in) ==
    LET p1 == PlayerUpdate(p)
        out == IF e.alive THEN EnemyOutcome(e, p1, in) ELSE "run"
        e1 == IF e.alive /\ out = "run" THEN EnemyUpdate(e, p1, in) ELSE e
        p2 == IF out = "run" THEN PhysicsMove(p1) ELSE p1
        r == IF e1.alive /\ out = "run" THEN Resolve(p2, e1) ELSE [p |-> p2, e |-> e1]
    IN  [p |-> r.p, e |-> r.e, halt |-> out,
         read |-> IF e.alive THEN EnemyReads(e, p1, in) ELSE {},
         attack |-> IF e.alive THEN EnemyAttempt(e, p1, in) ELSE "-"]

on_updatePhysicsFirst(p, e, in) ==
    LET r == IF e.alive THEN Resolve(p, e) ELSE [p |-> p, e |-> e]
        p1 == PhysicsMove(PlayerUpdate(r.p))
        out == IF r.e.alive THEN EnemyOutcome(r.e, p1, in) ELSE "run"
        e1 == IF r.e.alive /\ out = "run" THEN EnemyUpdate(r.e, p1, in) ELSE r.e
    IN  [p |-> p1, e |-> e1, halt |-> out,
         read |-> IF r.e.alive THEN EnemyReads(r.e, p1, in) ELSE {},
         attack |-> IF r.e.alive THEN EnemyAttempt(r.e, p1, in) ELSE "-"]

\* GameView.on_update: combat pass, the player's update, the enemies'
\* update, the physics step; read is the set of target positions the
\* enemy's update read
on_update(p, e, in) ==
    LET r == IF e.alive THEN Resolve(p, e) ELSE [p |-> p, e |-> e]
        p1 == PlayerUpdate(r.p)
        out == IF r.e.alive THEN EnemyOutcome(r.e, p1, in) ELSE "run"
        e1 == IF r.e.alive /\ out = "run" THEN EnemyUpdate(r.e, p1, in) ELSE r.e
        p2 == IF out = "run" THEN PhysicsMove(p1) ELSE p1
    IN  [p |-> p2, e |-> e1, halt |-> out,
         read |-> IF r.e.alive THEN EnemyReads(r.e, p1, in) ELSE {},
         attack |-> IF r.e.alive THEN EnemyAttempt(r.e, p1, in) ELSE "-"]

\* the window calls on_update once per frame
Frame ==
    /\ Running
    /\ \E in \in EnemyInputs :
          /\ Drawn(enemy, in)
          /\ LET f == on_update(player, enemy, in)
                 r == IF enemy.alive THEN Resolve(player, enemy)
                      ELSE [p |-> player, e |-> enemy]
             IN
              /\ player' = f.p
              /\ enemy' = f.e
              /\ halt' = f.halt
              /\ hist' =
                   [ptested |-> hist.ptested
                                \/ (enemy.alive /\ player.equiped
                                    /\ player.weapon.point.set),
                    etested |-> IF Attacked(r.e.weapon, f.e.weapon) THEN FALSE
                                ELSE hist.etested
                                     \/ (enemy.alive /\ enemy.equipped
                                         /\ enemy.weapon.point.set),
                    psince |-> Min(hist.psince + 1, RateTicks),
                    pattack |-> NoAttack,
                    eread |-> f.read,
                    eattack |-> f.attack]
    /\ last' = "frame"
    /\ UNCHANGED <<mode, weaponVars, entity, ai, mv, sc, fog, rm, inv, hb, gs, rs>>

\* ------------------------------------------------------------ unit actions
\* Weapon.attack called directly
WAttack(position, angle) ==
    /\ mode = "weapon"
    /\ LET r == WeaponAttack(w, position, angle)
       IN  /\ w' = r.w
           /\ wres' = r.ret
           /\ wsince' = IF r.ret = "True" THEN 0 ELSE wsince
           /\ wok' = IF r.ret = "True" THEN wok + 1 ELSE wok
    /\ last' = "Weapon.attack"
    /\ UNCHANGED <<mode, gameVars, entity, ai, mv, sc, fog, rm, inv, hb, gs, rs>>

\* Weapon.update called directly
WUpdate ==
    /\ mode = "weapon"
    /\ w' = WeaponUpdate(w)
    /\ wres' = "-"
    /\ last' = "Weapon.update"
    /\ wsince' = Min(wsince + 1, RateTicks)
    /\ UNCHANGED <<mode, gameVars, wok, entity, ai, mv, sc, fog, rm, inv, hb, gs, rs>>

\* values assigned to an hp property
HpValues == (0 - Strength)..(EnemyMaxHp + Strength)

\* player.hp = v, enemy.hp = v, entity.cur_hp = v
HpAssign(v) ==
    /\ mode = "hp"
    /\ \/ player' = PlayerHpSet(player, v) /\ UNCHANGED <<enemy, entity>>
       \/ enemy' = EnemyHpSet(enemy, v) /\ UNCHANGED <<player, entity>>
       \/ entity' = EntityCurHpSet(entity, v) /\ UNCHANGED <<player, enemy>>
    /\ last' = "hp ="
    /\ UNCHANGED <<mode, halt, hist, weaponVars, ai, mv, sc, fog, rm, inv, hb, gs, rs>>

\* x.hp -= Strength, the statement of the combat pass
HpDamage ==
    /\ mode = "hp"
    /\ \/ player' = PlayerHpSet(player, PlayerHpGet(player) - Strength)
          /\ UNCHANGED enemy
       \/ enemy' = EnemyHpSet(enemy, EnemyHpGet(enemy) - Strength)
          /\ UNCHANGED player
    /\ last' = "hp -="
    /\ UNCHANGED <<mode, halt, hist, weaponVars, entity, ai, mv, sc, fog, rm, inv, hb, gs, rs>>

Keys == {"left", "right", "attack"}
Angles == {UP, RIGHT, LEFT}

\* --------------------------------------------- enemy with a list of targets
\* values drawn inside one update: the targets in line of sight, the
\* timer, the roaming destination, whether A* finds a path
AiInputs(a) ==
    [seen : SUBSET (1..Len(a.targets)), timer : 1..MaxTimer,
     dest : Cells, found : BOOLEAN]

\* cell x lies on the segment from cell p to cell q
Between(x, p, q) == (p <= x /\ x <= q) \/ (q <= x /\ x <= p)

AiDrawnAnyDestination(a, in) ==
    LET runs == a.e.pause <= 0
        a1 == AiEvaluate(a, in)
        roams == runs /\ a1.e.state = "ROAMING" /\ a1.e.path = << >>
        plans == roams \/ (runs /\ a1.dest # << >>)
    IN  /\ \A t \in in.seen, u \in 1..Len(a.targets) :
              Between(a.targets[u], a.e.pos, a.targets[t]) => u \in in.seen
        /\ (runs /\ a.e.calc - 1 <= 0) \/ in.timer = 1
        /\ plans \/ in.found = FALSE

\* the draws the update does not make are fixed; a target on the sight
\* line to a visible target is visible too
AiDrawn(a, in) ==
    LET runs == a.e.pause <= 0
        a1 == AiEvaluate(a, in)
        roams == runs /\ a1.e.state = "ROAMING" /\ a1.e.path = << >>
        plans == roams \/ (runs /\ a1.dest # << >>)
    IN  /\ \A t \in in.seen, u \in 1..Len(a.targets) :
              Between(a.targets[u], a.e.pos, a.targets[t]) => u \in in.seen
        /\ (runs /\ a.e.calc - 1 <= 0) \/ in.timer = 1
        /\ plans \/ in.found = FALSE
        /\ IF roams /\ \E d \in Cells : Abs(d - a.e.pos) > RoamDist
           THEN Abs(in.dest - a.e.pos) > RoamDist
           ELSE in.dest = 0

\* the enemies' update of one frame, for this enemy
AiTick ==
    /\ mode = "ai"
    /\ halt = "run"
    /\ \E in \in AiInputs(ai) :
          /\ AiDrawn(ai, in)
          /\ LET out == AiOutcome(ai, in)
                 runs == ai.e.pause <= 0
                 a1 == IF runs THEN AiEvaluate(ai, in) ELSE ai
                 a2 == IF out = "run" THEN AiUpdate(ai, in) ELSE ai
             IN  /\ halt' = out
                 /\ ai' = [a2 EXCEPT
                             !.seen = in.seen,
                             !.evaluated = runs /\ ai.e.calc - 1 <= 0,
                             !.after = [state |-> a1.e.state,
                                        cur_target |-> a1.cur_target,
                                        path |-> a1.e.path]]
    /\ last' = "Enemy.update"
    /\ UNCHANGED <<mode, player, enemy, hist, weaponVars, entity, mv, sc, fog, rm, inv, hb, gs, rs>>

\* ------------------------------------------------- chase of a far target
\* the x of the weapon sprite's centre after the chase step of e: where
\* Weapon.attack put it if the attack succeeded, else where it was, and
\* from there the enemy's step further
ChaseCentre(e, p, centre) ==
    LET angle_to_target == AngleTo(e.pos, p.pos)
        position == e.pos + Sin(angle_to_target) * e.speed
        attacked == IF ChaseAttack(e, p).ret = "True"
                    THEN position + Sin(angle_to_target) * Range
                    ELSE centre
    IN  attacked + Sin(angle_to_target) * e.speed

\* one update of the enemy while the target is in sight and out of reach;
\* no roaming path is found before the state control first runs
ScTick ==
    /\ mode = "scenario"
    /\ halt = "run"
    /\ sc.e.equipped
    /\ Abs(sc.target - sc.e.pos) > sc.e.speed
    /\ \E timer \in 1..MaxTimer :
          LET in == [vis |-> TRUE, timer |-> timer, dest |-> 0, found |-> FALSE]
              p == [pos |-> sc.target]
              e1 == EnemyUpdate(sc.e, p, in)
              chases == sc.e.pause <= 0 /\ e1.state = "CHASING"
          IN  /\ sc.e.calc - 1 <= 0 \/ timer = 1
              /\ sc' = [sc EXCEPT !.e = e1,
                                  !.centre = IF chases THEN ChaseCentre(sc.e, p, @) ELSE @,
                                  !.chased = IF chases THEN Min(@ + 1, 2) ELSE @]
    /\ last' = "chase"
    /\ UNCHANGED <<mode, gameVars, weaponVars, entity, ai, mv, fog, rm, inv, hb, gs, rs>>

\* ------------------------------------------------------- path following
\* one call of move_along_path, no planning in between
MoverTick ==
    /\ mode = "mover"
    /\ halt = "run"
    /\ mv.e.path # << >>
    /\ mv' = [mv EXCEPT !.e = move_along_path(@), !.ticks = @ + 1]
    /\ last' = "Enemy.move_along_path"
    /\ UNCHANGED <<mode, gameVars, weaponVars, entity, ai, sc, fog, rm, inv, hb, gs, rs>>

\* ------------------------------------------- combat pass with two defenders
NoHits == <<0, 0>>

\* a key of the first player is tapped
RKey(key) ==
    /\ mode = "resolver"
    /\ halt = "run"
    /\ LET p1 == PlayerKeyRelease(PlayerKeyPress(rs.ps[1], key), key)
       IN  rs' = [rs EXCEPT !.ps[1] = p1,
                            !.hits.p = IF Attacked(rs.ps[1].weapon, p1.weapon)
                                       THEN NoHits ELSE @]
    /\ last' = "on_key_press"
    /\ UNCHANGED <<mode, gameVars, weaponVars, entity, ai, mv, sc, fog, rm, inv, hb, gs>>

\* the first enemy's weapon is commanded to attack, as its chase does
REnemyAttack(angle) ==
    /\ mode = "resolver"
    /\ halt = "run"
    /\ rs.es[1].equipped
    /\ LET w1 == WeaponAttack(rs.es[1].weapon, rs.es[1].pos, angle).w
       IN  rs' = [rs EXCEPT !.es[1].weapon = w1,
                            !.hits.e = IF Attacked(rs.es[1].weapon, w1)
                                       THEN NoHits ELSE @]
    /\ last' = "Enemy.attack"
    /\ UNCHANGED <<mode, gameVars, weaponVars, entity, ai, mv, sc, fog, rm, inv, hb, gs>>

\* the combat pass of GameView.on_update alone
RPass ==
    /\ mode = "resolver"
    /\ halt = "run"
    /\ LET r == ResolvePairs(rs.ps, rs.es, rs.hits, 0)
       IN  rs' = [ps |-> r.ps, es |-> r.es, hits |-> r.hits]
    /\ last' = "pass"
    /\ UNCHANGED <<mode, gameVars, weaponVars, entity, ai, mv, sc, fog, rm, inv, hb, gs>>

\* the rest of on_update: p.update() for the players, weapon timer and
\* durability check of the enemies
RUpdates ==
    /\ mode = "resolver"
    /\ halt = "run"
    /\ rs' = [rs EXCEPT !.ps = [i \in 1..Len(rs.ps) |-> PlayerUpdate(rs.ps[i])],
                        !.es = [j \in 1..Len(rs.es) |-> EnemyFinish(rs.es[j])]]
    /\ last' = "updates"
    /\ UNCHANGED <<mode, gameVars, weaponVars, entity, ai, mv, sc, fog, rm, inv, hb, gs>>

\* the physics engine reports two enemies in contact and calls the
\* handler registered for the pair
RCollide ==
    /\ mode = "resolver"
    /\ halt = "run"
    /\ Abs(rs.es[1].pos - rs.es[2].pos) <= 1
    /\ halt' = handler_enemy_enemy(rs.es[1], rs.es[2])
    /\ last' = "handler_enemy_enemy"
    /\ UNCHANGED <<mode, player, enemy, hist, weaponVars, entity, ai, mv, sc, fog, rm, inv, hb, gs, rs>>

\* GameView.on_draw
on_draw ==
    /\ mode = "fog"
    /\ \E clear \in SUBSET Cells :
          /\ fog.pos \notin clear
          /\ fog' = DrawFog(fog, clear)
    /\ last' = "on_draw"
    /\ UNCHANGED <<mode, halt, player, enemy, hist, weaponVars, entity, ai, mv, sc, rm, inv, hb, gs, rs>>

\* the physics step of a frame in which the player walks
FogStep ==
    /\ mode = "fog"
    /\ \E d \in {-PlayerSpeed, PlayerSpeed} :
          /\ fog.pos + d \in Cells
          /\ fog' = [fog EXCEPT !.pos = @ + d, !.caught = {}]
    /\ last' = "step"
    /\ UNCHANGED <<mode, halt, player, enemy, hist, weaponVars, entity, ai, mv, sc, rm, inv, hb, gs, rs>>

\* one round of the sampling loop: a point of the window is drawn; a point
\* that is far enough is planned for and ends the loop, any other point is
\* dropped
RoamSample(next_pos) ==
    /\ mode = "roam"
    /\ rm.pc = "sampling"
    /\ rm' = IF FarEnough(rm, next_pos)
             THEN [rm EXCEPT !.next_pos = next_pos, !.pc = "planned"]
             ELSE [rm EXCEPT !.next_pos = next_pos, !.rejected = TRUE]
    /\ last' = "sample"
    /\ UNCHANGED <<mode, halt, player, enemy, hist, weaponVars, entity, ai, mv, sc, fog, inv, hb, gs, rs>>

\* the draws that end the loop
RoamAccept ==
    \E next_pos \in Cells : FarEnough(rm, next_pos) /\ RoamSample(next_pos)

\* a later update of the enemy, ROAMING at the end of the planned path,
\* enters the loop again
RoamEnter ==
    /\ mode = "roam"
    /\ rm.pc = "planned"
    /\ rm' = NewRoam(rm.next_pos, rm.roaming_dist)
    /\ last' = "enter"
    /\ UNCHANGED <<mode, halt, player, enemy, hist, weaponVars, entity, ai, mv, sc, fog, inv, hb, gs, rs>>

\* player.hp = v, with the clamp of the hp setter
HbAssign(v) ==
    /\ mode = "health"
    /\ hb' = [hb EXCEPT !.hp = PlayerHpSet([hp |-> hb.hp], v).hp]
    /\ last' = "player.hp"
    /\ UNCHANGED <<mode, halt, player, enemy, hist, weaponVars, entity, ai, mv, sc, fog, rm, inv, gs, rs>>

\* Player.update: the health bar is given the player's hp
HbUpdate ==
    /\ mode = "health"
    /\ hb' = [hb EXCEPT !.health = HealthBarSet(@, hb.hp)]
    /\ last' = "health_bar"
    /\ UNCHANGED <<mode, halt, player, enemy, hist, weaponVars, entity, ai, mv, sc, fog, rm, inv, gs, rs>>

\* GameState.next_map; a map that fails the validation ends the program
GsNextMap(valid) ==
    /\ mode = "state"
    /\ halt = "run"
    /\ gs.map_no < MaxMap
    /\ gs' = next_map(gs, valid)
    /\ halt' = IF valid THEN "run" ELSE "AssertionError"
    /\ last' = "next_map"
    /\ UNCHANGED <<mode, player, enemy, hist, weaponVars, entity, ai, mv, sc, fog, rm, inv, hb, rs>>

\* the physics engine reports a player on an exit
GsPlayerExit ==
    /\ mode = "state"
    /\ halt = "run"
    /\ gs' = _handler_player_exit(gs)
    /\ last' = "_handler_player_exit"
    /\ UNCHANGED <<mode, halt, player, enemy, hist, weaponVars, entity, ai, mv, sc, fog, rm, inv, hb, rs>>

\* a read of the level_clear property
GsRead ==
    /\ mode = "state"
    /\ halt = "run"
    /\ last' = IF gs.level_clear THEN "level_clear: True" ELSE "level_clear: False"
    /\ UNCHANGED <<mode, halt, player, enemy, hist, weaponVars, entity, ai, mv, sc, fog, rm, inv, hb, gs, rs>>

\* the calls on the player's weapons
InvAddWeapon(type) ==
    /\ mode = "inventory"
    /\ Len(inv.objs) < MaxWeapons
    /\ inv' = add_weapon(inv, type)
    /\ last' = "add_weapon"
    /\ UNCHANGED <<mode, halt, player, enemy, hist, weaponVars, entity, ai, mv, sc, fog, rm, hb, gs, rs>>

InvEquip(type) ==
    /\ mode = "inventory"
    /\ inv' = equip(inv, type)
    /\ last' = "equip"
    /\ UNCHANGED <<mode, halt, player, enemy, hist, weaponVars, entity, ai, mv, sc, fog, rm, hb, gs, rs>>

InvAttack ==
    /\ mode = "inventory"
    /\ inv' = InventoryAttack(inv)
    /\ last' = "Player.attack"
    /\ UNCHANGED <<mode, halt, player, enemy, hist, weaponVars, entity, ai, mv, sc, fog, rm, hb, gs, rs>>

InvUpdate ==
    /\ mode = "inventory"
    /\ inv' = InventoryUpdate(inv)
    /\ last' = "Player.update"
    /\ UNCHANGED <<mode, halt, player, enemy, hist, weaponVars, entity, ai, mv, sc, fog, rm, hb, gs, rs>>

NextRoam ==
    \/ \E next_pos \in Cells : RoamSample(next_pos)
    \/ RoamEnter

Next ==
    \/ \E key \in Keys : KeyTap(key)
    \/ \E key \in {"left", "right"} : KeyPress(key)
    \/ \E key \in {"left", "right"} : KeyRelease(key)
    \/ Frame
    \/ \E position \in Cells, angle \in Angles : WAttack(position, angle)
    \/ WUpdate
    \/ \E v \in HpValues : HpAssign(v)
    \/ HpDamage
    \/ \E key \in Keys : RKey(key)
    \/ \E angle \in {LEFT, RIGHT} : REnemyAttack(angle)
    \/ RPass
    \/ RUpdates
    \/ RCollide
    \/ AiTick
    \/ MoverTick
    \/ ScTick
    \/ on_draw
    \/ FogStep
    \/ \E next_pos \in Cells : RoamSample(next_pos)
    \/ RoamEnter
    \/ \E type \in WeaponTypes : InvAddWeapon(type)
    \/ \E type \in WeaponTypes : InvEquip(type)
    \/ InvAttack
    \/ InvUpdate
    \/ \E v \in HpValues : HbAssign(v)
    \/ HbUpdate
    \/ \E valid \in BOOLEAN : GsNextMap(valid)
    \/ GsPlayerExit
    \/ GsRead

Spec == Init /\ [][Next]_vars

\* the sampling loop alone, with fair sampling: while a point that is far
\* enough exists, the draws do not avoid all such points for ever
RoamSpec == InitRoam /\ [][NextRoam]_vars /\ WF_vars(RoamAccept)

\* ------------------------------------------------------------------ claims
\* the conditions under which the combat pass of a frame registers a hit
EnemyHits(p, e) ==
    e.alive /\ e.equipped /\ collides_with_point(p.pos, e.weapon.point)
PlayerHits(p, e) ==
    e.alive /\ p.equiped /\ collides_with_point(e.pos, p.weapon.point)

HpInRange(hp, max_hp) == 0 <= hp /\ hp <= max_hp

\* C1: after any sequence of hits and hp assignments the stored hp of the
\* player, of the enemy and of an entity lies in 0..max_hp.
C1_HpWithinBounds ==
    /\ HpInRange(player.hp, PlayerMaxHp)
    /\ HpInRange(enemy.hp, enemy.max)
    /\ HpInRange(entity.cur_hp, entity.max)

\* a hit larger than the hp left has floored the enemy's hp at 0
C1_Witness == mode = "game" /\ last = "frame" /\ enemy.hp = 0

\* C2: a frame whose combat pass registers a hit leaves the defender with
\* max(0, hp before - strength), for the enemy and for the player.
C2_HitSubtractsStrength ==
    [][last' = "frame" =>
         /\ PlayerHits(player, enemy) =>
               enemy'.hp = Max(0, enemy.hp - Strength)
         /\ EnemyHits(player, enemy) =>
               player'.hp = Max(0, player.hp - Strength)]_vars

\* C3: an unpaused update that returns leaves the enemy in the world
\* exactly if its hp is above 0.
C3_DeadEnemyRemoved ==
    [][last' = "frame" /\ halt' = "run" /\ enemy.alive /\ enemy.pause <= 0 =>
         (enemy'.alive <=> enemy'.hp > 0)]_vars

\* C4: an attack succeeds only from cooldown <= 0 with uses > 0, takes
\* exactly one use and sets the cooldown to the rate (called directly, and
\* through Player.attack).
C4_AttackGate ==
    [][/\ last' = "Weapon.attack" /\ wres' = "True" =>
             /\ w.tti <= 0 /\ w.left > 0
             /\ w'.left = w.left - 1 /\ w'.tti = RateTicks
       /\ last' = "attack" /\ player'.weapon # player.weapon =>
             /\ player.weapon.tti <= 0 /\ player.weapon.left > 0
             /\ player'.weapon.left = player.weapon.left - 1
             /\ player'.weapon.tti = RateTicks]_vars

\* the attack that spends the last use has just succeeded
C4_Witness ==
    /\ mode = "weapon" /\ last = "Weapon.attack" /\ wres = "True"
    /\ w.left = 0 /\ w.tti = RateTicks

\* C5: an attack called before a full rate of updates has passed since the
\* last success fails, and a failed call changes neither the uses left,
\* nor the cooldown, nor the attack point.
C5_CooldownBlocks ==
    [][last' = "Weapon.attack" =>
         /\ wsince < RateTicks => wres' # "True"
         /\ wres' # "True" =>
               /\ w'.left = w.left
               /\ w'.tti = w.tti
               /\ w'.point = w.point]_vars

\* an attack was refused part way through the cooldown
C5_Witness ==
    /\ mode = "weapon" /\ last = "Weapon.attack" /\ wres = "None"
    /\ 0 < wsince /\ wsince < RateTicks
    /\ w.point.set /\ w.left > 0

\* C6 as stated, directly on the weapon: an idle attempt succeeds while
\* fewer than MaxUses attempts have succeeded, and the next idle attempt
\* fails and signals destruction
DirectExactlyN ==
    last' = "Weapon.attack" /\ w.tti <= 0 =>
        /\ wok < MaxUses => wres' = "True" /\ wok' = wok + 1
        /\ wok = MaxUses => wres' = "False" /\ w'.killed /\ wok' = wok

\* C6 as stated: exactly MaxUses idle-spaced attempts succeed and the next
\* one signals destruction, also when the player makes it a full rate of
\* frames after the last success.
C6_NextAttemptSignalsDestruction ==
    [][/\ DirectExactlyN
       /\ last' = "attack" /\ player.weapon.left = 0
          /\ hist.psince = RateTicks => player'.weapon.killed]_vars

\* C6 amended: directly on the weapon as stated; through an owner, an idle
\* attempt with the weapon equipped succeeds, the owner's update drops the
\* weapon once no use is left, and a later attempt neither reaches the
\* weapon nor signals its destruction.
C6_ExactlyNUses ==
    [][/\ DirectExactlyN
       /\ wok' <= MaxUses
       /\ last' = "attack" /\ player.equiped /\ player.weapon.tti <= 0 =>
             player'.weapon.left = player.weapon.left - 1
       /\ last' = "attack" /\ ~player.equiped => player' = player
       /\ last' = "frame" =>
             /\ player'.weapon.left = 0 => ~player'.equiped
             /\ enemy'.weapon.left = 0 => ~enemy'.equipped
       /\ mode = "game" =>
             /\ player'.weapon.left >= 0 /\ ~player'.weapon.killed
             /\ enemy'.weapon.left >= 0 /\ ~enemy'.weapon.killed]_vars

\* the player asked for an attack a full rate after the last use was spent
C6_Witness ==
    /\ mode = "game" /\ last = "attack"
    /\ ~player.equiped /\ player.weapon.left = 0
    /\ hist.psince = RateTicks /\ ~player.weapon.killed

C8_ExhaustedWeaponDropped ==
    [][last' = "frame" =>
         /\ player.equiped /\ player.weapon.left <= 0 => ~player'.equiped
         /\ enemy'.equipped => enemy'.weapon.left > 0
         /\ player.equiped /\ ~player'.equiped =>
               /\ player'.hp = Resolve(player, enemy).p.hp
               /\ player'.pos = player.pos
         /\ enemy.equipped /\ ~enemy'.equipped =>
               /\ enemy'.alive
               /\ enemy'.hp = Resolve(player, enemy).e.hp
               /\ enemy'.state = "CHASING"
               /\ enemy'.pos = enemy.pos
                     + Sin(AngleTo(enemy.pos, player.pos)) * EnemySpeed]_vars

\* both owners have spent and dropped their weapons and are still there
C8_Witness ==
    /\ mode = "game" /\ last = "frame" /\ halt = "run"
    /\ ~player.equiped /\ player.weapon.left = 0
    /\ ~enemy.equipped /\ enemy.weapon.left = 0 /\ enemy.alive

Weapons == {w, player.weapon, enemy.weapon}

C10_EveryAttackTested ==
    [][/\ player.weapon.point.set /\ ~player'.weapon.point.set =>
             last' = "frame" /\ PlayerHits(player, enemy)
       /\ enemy.weapon.point.set /\ ~enemy'.weapon.point.set =>
             last' = "frame" /\ EnemyHits(player, enemy)
       /\ player.equiped /\ ~player'.equiped => hist'.ptested
       /\ enemy.equipped /\ ~enemy'.equipped => hist'.etested]_vars

\* C11: the hp subtractions made with one successful attack never number
\* more than one, across defenders of one pass and across passes.
C11_OneHitPerAttack ==
    \A i \in 1..2 : rs.hits.p[i] <= 1 /\ rs.hits.e[i] <= 1

\* a pass has hit the first of two enemies that both overlap the first
\* player's attack point and left the second alone
C11_Witness ==
    /\ mode = "resolver" /\ last = "pass"
    /\ rs.hits.p[1] = 1
    /\ rs.es[1].hp < rs.es[1].max /\ rs.es[2].hp = rs.es[2].max
    /\ \A j \in 1..2 :
          collides_with_point(rs.es[j].pos,
                              HitboxCentre(rs.ps[1].pos, rs.ps[1].dir))

Evaluated == last' = "Enemy.update" /\ ai'.evaluated /\ halt' = "run"

\* C13: after a state evaluation over the list of potential targets, if
\* any target is visible the enemy is CHASING and its tracked target is a
\* visible one.  The loop's elif branch runs for every hidden target
\* after a visible one, so the list [visible, hidden] ends SEARCHING.
C13_VisibleMeansChasing ==
    [][(Evaluated /\ ai'.seen # {})
          => /\ ai'.after.state = "CHASING"
             /\ ai'.after.cur_target \in ai'.seen]_vars

\* the visible targets at the least distance from position pos
NearestOf(pos, targets, seen) ==
    {t \in seen : \A u \in seen : Abs(targets[t] - pos) <= Abs(targets[u] - pos)}

\* C14: when several targets are visible in one evaluation the tracked
\* target afterwards is the visible target nearest to the enemy, whatever
\* the order of the list.  The loop keeps the last visible target of the
\* list.
C14_TracksNearestVisible ==
    [][(Evaluated /\ Cardinality(ai'.seen) >= 2)
          => ai'.after.cur_target \in NearestOf(ai.e.pos, ai.targets, ai'.seen)]_vars

\* C15: at a state evaluation where the enemy tracks a target and no
\* potential target is visible, it plans one path, to the tracked target's
\* position, clears the tracked target and becomes SEARCHING; with no
\* tracked target and no visible target it does not enter SEARCHING.
C15_LostTargetIsSearched ==
    [][(Evaluated /\ ai'.seen = {})
          => IF ai.cur_target # 0
             THEN /\ ai'.dest = <<ai.targets[ai.cur_target]>>
                  /\ \/ ai'.after.path = << >>
                     \/ ai'.after.path[Len(ai'.after.path)] = ai.targets[ai.cur_target]
                  /\ ai'.after.cur_target = 0
                  /\ ai'.after.state = "SEARCHING"
             ELSE /\ ai'.dest = << >>
                  /\ ai'.after.state = ai.e.state]_vars

\* a tracked target was lost at the last evaluation and a path to its
\* position was found
C15_Witness ==
    /\ mode = "ai" /\ last = "Enemy.update" /\ halt = "run"
    /\ ai.evaluated /\ ai.seen = {} /\ ai.dest # << >>
    /\ ai.after.state = "SEARCHING" /\ ai.after.path # << >>

\* an enemy's update ran to its end
Updated == last' = "Enemy.update" /\ halt' = "run"

\* C16 as stated: from ROAMING, a target that becomes visible makes the
\* state after the next tick CHASING; visibility lost then makes the state
\* after the following tick SEARCHING with a non-empty path to the last
\* known position, or ROAMING with an empty path.  Stated for an enemy
\* with one potential target.
C16_EveryTickEvaluates ==
    [][(Updated /\ Len(ai.targets) = 1)
          => /\ (ai.e.state = "ROAMING" /\ ai.seen = {} /\ ai'.seen # {})
                   => ai'.e.state = "CHASING"
             /\ (ai.e.state = "CHASING" /\ ai.seen # {} /\ ai'.seen = {})
                   => \/ /\ ai'.e.state = "SEARCHING"
                         /\ ai'.e.path # << >>
                      \/ /\ ai'.e.state = "ROAMING"
                         /\ ai'.e.path = << >>]_vars

\* C16, amended: the state control runs only in an update where
\* calculate_path_timer runs out.  In such an update of an enemy with one
\* potential target, a visible target makes the state after the tick
\* CHASING; a CHASING enemy that sees no target is, after the tick,
\* SEARCHING with a non-empty path that ends at the last known position,
\* or ROAMING with an empty path.  In any other update a ROAMING enemy
\* stays ROAMING and a CHASING enemy stays CHASING, whatever is visible.
C16_EvaluatingTickTransitions ==
    [][Updated
          => IF ai'.evaluated
             THEN /\ (Len(ai.targets) = 1 /\ ai'.seen # {})
                        => ai'.e.state = "CHASING"
                  /\ (ai.e.state = "CHASING" /\ ai'.seen = {})
                        => \/ /\ ai'.e.state = "SEARCHING"
                              /\ ai'.e.path # << >>
                              /\ ai'.e.path[Len(ai'.e.path)] = ai.targets[ai.cur_target]
                           \/ /\ ai'.e.state = "ROAMING"
                              /\ ai'.e.path = << >>
             ELSE ai.e.state \in {"ROAMING", "CHASING"}
                        => ai'.e.state = ai.e.state]_vars

\* the one target was lost at the last update's evaluation; the enemy is
\* on its way to the last known position
C16_Witness ==
    /\ mode = "ai" /\ last = "Enemy.update" /\ halt = "run"
    /\ Len(ai.targets) = 1
    /\ ai.evaluated /\ ai.seen = {} /\ ai.dest # << >>
    /\ ai.e.state = "SEARCHING" /\ ai.e.path # << >>

\* reaction r was emitted in the enemy's last update
Emitted(a, r) == \E i \in 1..Len(a.sig) : a.sig[i] = r

\* C17: the alert is emitted only in a tick that changes the state from
\* a non-CHASING state to CHASING, the lost-interest reaction only in a
\* tick that changes it from a non-ROAMING state to ROAMING; an enemy
\* CHASING at the end of consecutive ticks emits no alert in the later
\* one.  With two potential targets the state control assigns the state
\* once per target, and reacts to changes between those assignments.
C17_ReactionsOnlyOnTickChange ==
    [][Updated
          => /\ Emitted(ai', "alert")
                   => ai.e.state # "CHASING" /\ ai'.e.state = "CHASING"
             /\ Emitted(ai', "lost interest")
                   => ai.e.state # "ROAMING" /\ ai'.e.state = "ROAMING"]_vars

\* the summed distance between the consecutive waypoints of path
RECURSIVE PathLength(_)
PathLength(path) ==
    IF Len(path) <= 1 THEN 0
    ELSE Abs(path[2] - path[1]) + PathLength(Tail(path))

\* the least integer not below n / d
Ceil(n, d) == (n + d - 1) \div d

\* C18 as stated: a mover of speed s on a path of K waypoints reaches the
\* empty path within ceil(total_path_length / s) calls of the mover.
C18_EmptyWithinCeil ==
    (mode = "mover" /\ mv.e.path # << >>)
        => mv.ticks < Ceil(PathLength(mv.planned), mv.e.speed)

\* the calls a mover of state m needs at most: one per waypoint to
\* advance the cursor, and the moves of length speed that leave it short
\* of the last waypoint
MoverBound(m) ==
    Max(Ceil(PathLength(m.planned), m.e.speed) - 1, 0) + Len(m.planned)

\* C18, amended: a mover of speed s that starts on the first of K
\* waypoints of a straight path reaches the empty path within
\* max(ceil(total_path_length / s) - 1, 0) + K calls of the mover.
C18_EmptyWithinCeilPlusK ==
    (mode = "mover" /\ mv.e.path # << >>) => mv.ticks < MoverBound(mv)

\* a path of several waypoints was emptied by the last call allowed,
\* later than ceil(total_path_length / s) calls
C18_Witness ==
    /\ mode = "mover" /\ mv.e.path = << >>
    /\ Len(mv.planned) >= 2
    /\ mv.ticks = MoverBound(mv)
    /\ mv.ticks > Ceil(PathLength(mv.planned), mv.e.speed)

\* the exceptions an operation of the core can end in
Errors == {"ZeroDivisionError", "AttributeError", "IndexError", "RecursionError"}

\* C19: no sequence of enemy updates, player attacks and updates, weapon
\* calls, combat passes and collision callbacks ends in an error.  The
\* line-of-sight test of Enemy.update divides by the distance to the
\* target, and the handler for two enemies in contact reads a member the
\* enumeration EnemyState does not have.
C19_NoOperationFails == halt \notin Errors /\ entity.err \notin Errors

\* C20: a player's attack request with a weapon equipped and idle emits
\* exactly one of attack-succeeded (ANGRY) and attack-failed (SAD), the
\* one that matches what Weapon.attack returned, and returns True;
\* a request with no weapon equipped, or with the weapon cooling down,
\* returns False, emits nothing and leaves the weapon as it was.
C20_AttackRequestEvents ==
    [][(last' = "attack" /\ mode = "game")
          => IF player.equiped /\ is_idle(player.weapon)
             THEN /\ hist'.pattack.ret
                  /\ \/ /\ hist'.pattack.react = <<"ANGRY">>
                        /\ WeaponAttack(player.weapon, player.pos, player.dir).ret = "True"
                        /\ Attacked(player.weapon, player'.weapon)
                     \/ /\ hist'.pattack.react = <<"SAD">>
                        /\ WeaponAttack(player.weapon, player.pos, player.dir).ret = "False"
                        /\ ~Attacked(player.weapon, player'.weapon)
             ELSE /\ ~hist'.pattack.ret
                  /\ hist'.pattack.react = << >>
                  /\ player'.weapon = player.weapon
                  /\ player'.equiped = player.equiped]_vars

\* an attack request with an idle weapon was granted: it returned True
\* and emitted the one reaction ANGRY, and the weapon holds its point
C20_Witness ==
    /\ mode = "game" /\ last = "attack"
    /\ hist.pattack.called /\ hist.pattack.ret
    /\ hist.pattack.react = <<"ANGRY">>
    /\ player.weapon.left < MaxUses /\ ~is_idle(player.weapon)

\* entity a with the two fields the combat pass may write taken from b
WithHpAndPoint(a, b) ==
    [a EXCEPT !.hp = b.hp, !.weapon = SetAttackPoint(@, b.weapon.point)]

\* C21: a combat pass writes nothing but defenders' hp and attackers'
\* attack points: positions, the enemies' state, path and cursor, the
\* weapons' uses left and cooldown timers stay as they were; and hp
\* changes only for a defender on whom an attacker's set point lies.
C21_PassWritesHpAndPoints ==
    [][last' = "pass"
          => /\ \A i \in 1..Len(rs.ps) :
                  /\ rs'.ps[i] = WithHpAndPoint(rs.ps[i], rs'.ps[i])
                  /\ rs'.ps[i].hp # rs.ps[i].hp
                       => \E j \in 1..Len(rs.es) :
                             /\ rs.es[j].equipped /\ rs.es[j].weapon.point.set
                             /\ collides_with_point(rs.ps[i].pos, rs.es[j].weapon.point)
             /\ \A j \in 1..Len(rs.es) :
                  /\ rs'.es[j] = WithHpAndPoint(rs.es[j], rs'.es[j])
                  /\ rs'.es[j].hp # rs.es[j].hp
                       => \E i \in 1..Len(rs.ps) :
                             /\ rs.ps[i].equiped /\ rs.ps[i].weapon.point.set
                             /\ collides_with_point(rs.es[j].pos, rs.ps[i].weapon.point)]_vars

\* a pass hurt a player with the first enemy's attack; that weapon still
\* cools down, with the use spent and the point cleared
C21_Witness ==
    /\ mode = "resolver" /\ last = "pass"
    /\ \E i \in 1..Len(rs.ps) : rs.ps[i].hp < PlayerMaxHp
    /\ rs.es[1].weapon.tti > 0 /\ rs.es[1].weapon.left < MaxUses
    /\ ~rs.es[1].weapon.point.set

\* C22: the target positions an enemy's update reads, in its state
\* evaluation and its chase step, are the positions the targets had at
\* the end of the previous tick: no update that ran earlier in the tick
\* has moved them.
C22_ReadsPreviousTickPositions ==
    [][last' = "frame" => \A x \in hist'.eread : x = player.pos]_vars

\* the enemy read the player's position in a frame whose physics step
\* then moved the player
C22_Witness ==
    /\ mode = "held" /\ last = "frame" /\ halt = "run"
    /\ hist.eread # {} /\ player.pos \notin hist.eread
    /\ enemy.state = "CHASING"

\* the state control of the update that just ran left the state alone: it
\* did not run, or it saw no target
NothingSeen == Updated /\ (~ai'.evaluated \/ ai'.seen = {})

\* C23: a SEARCHING enemy with a non-empty path follows it and stays
\* SEARCHING, also in the tick that empties the path; with an empty path
\* it becomes ROAMING in its next tick, unless a target is seen; and it
\* never becomes ROAMING in a tick whose behaviour step found a path.
C23_SearchingUntilPathEmpty ==
    [][(Updated /\ ai.e.state = "SEARCHING")
          => /\ (NothingSeen /\ ai.e.path # << >>)
                   => /\ ai'.e.state = "SEARCHING"
                      /\ ai'.e.path = move_along_path(ai.e).path
                      /\ ai'.e.cur = move_along_path(ai.e).cur
                      /\ ai'.e.pos = move_along_path(ai.e).pos
             /\ (NothingSeen /\ ai.e.path = << >>) => ai'.e.state = "ROAMING"
             /\ ai'.e.state = "ROAMING"
                   => ai'.after.path = << >> /\ ai'.e.path = << >>]_vars

\* the last update emptied the path the enemy was searching along; the
\* enemy is still SEARCHING
C23_Witness ==
    /\ mode = "ai" /\ last = "Enemy.update" /\ halt = "run"
    /\ ai.e.state = "SEARCHING" /\ ai.e.path = << >>
    /\ ai.after.state = "SEARCHING" /\ ai.after.path # << >>
    /\ ai.dest = << >>

\* C24: at the end of an unpaused tick in which the enemy is CHASING its
\* path is empty; if it holds a weapon, the weapon's attack was called,
\* towards the target; and the call succeeded only with the weapon idle
\* and uses left.
C24_ChaseClearsPathAndAttacks ==
    [][(last' = "frame" /\ halt' = "run" /\ enemy.alive /\ enemy.pause <= 0
          /\ enemy'.state = "CHASING")
          => LET e0 == Resolve(player, enemy).e
                 angle == AngleTo(enemy.pos, player.pos)
             IN  /\ enemy'.path = << >>
                 /\ e0.equipped => hist'.eattack # "-"
                 /\ hist'.eattack = "True"
                       => /\ is_idle(e0.weapon) /\ e0.weapon.left > 0
                          /\ Attacked(e0.weapon, enemy'.weapon)
                          /\ enemy'.weapon.point = HitboxCentre(enemy'.pos, angle)
                 /\ hist'.eattack # "True"
                       => ~Attacked(e0.weapon, enemy'.weapon)]_vars

\* a chasing enemy's attack was called while its weapon cooled down from
\* an earlier attack, and failed
C24_Witness ==
    /\ mode = "game" /\ last = "frame" /\ halt = "run"
    /\ enemy.state = "CHASING" /\ enemy.equipped
    /\ hist.eattack = "None" /\ enemy.weapon.left < MaxUses

\* C25: an enemy of speed 5 at 0 with an idle weapon of range Range and a
\* visible target at 100 is, after its first CHASING update, at 5, and
\* the attack point, the centre of the weapon's hitbox, is at 5 + Range.
\* The update moves the weapon's sprite by the enemy's speed once more
\* after the attack has placed it.
C25_FirstChaseTick ==
    (mode = "scenario" /\ sc.chased = 1)
        => /\ sc.e.pos = 5
           /\ sc.e.weapon.point.set /\ sc.e.weapon.point.x = 5 + Range
           /\ sc.centre = 5 + Range

\* C26: a call of the mover on a non-empty path does one of two things.
\* If the waypoint at the cursor is no further than speed, the cursor
\* advances by one, the position stays, and the path is cleared when the
\* cursor has passed the last waypoint.  Otherwise the position moves by
\* min(speed, distance) towards the waypoint, not beyond it, and cursor
\* and path stay.
C26_AdvanceOrMove ==
    [][last' = "Enemy.move_along_path"
          => LET e == mv.e
                 waypoint == e.path[e.cur + 1]
                 distance == Abs(waypoint - e.pos)
             IN  IF distance <= e.speed
                 THEN /\ mv'.e.cur = e.cur + 1
                      /\ mv'.e.pos = e.pos
                      /\ mv'.e.path = IF e.cur + 1 >= Len(e.path) THEN << >> ELSE e.path
                 ELSE /\ Abs(mv'.e.pos - e.pos) = Min(e.speed, distance)
                      /\ Abs(waypoint - mv'.e.pos) = distance - Min(e.speed, distance)
                      /\ mv'.e.cur = e.cur
                      /\ mv'.e.path = e.path]_vars

\* the mover has left the first waypoint and is on its way to a later
\* one, further than its speed away
C26_Witness ==
    /\ mode = "mover" /\ last = "Enemy.move_along_path"
    /\ mv.e.path # << >> /\ mv.e.cur >= 1 /\ mv.e.pos > 0
    /\ Abs(mv.e.path[mv.e.cur + 1] - mv.e.pos) > mv.e.speed

\* the update that just ran called go_to_position: for a lost target in
\* the state control, or for a roaming destination in the ROAMING branch
Planned ==
    \/ ai'.dest # << >>
    \/ ai.e.pause <= 0 /\ ai'.after.state = "ROAMING" /\ ai'.after.path = << >>

\* C27: without a planning call the cursor never decreases and moves on
\* by at most one waypoint per tick, so that each waypoint is the target
\* of one unbroken run of ticks; the cursor is back at 0 only after a
\* planning call.
C27_CursorMonotonic ==
    [][/\ last' = "Enemy.move_along_path"
             => mv'.e.cur \in {mv.e.cur, mv.e.cur + 1}
       /\ Updated
             => IF Planned
                THEN ai'.e.cur \in {0, 1}
                ELSE ai'.e.cur \in {ai.e.cur, ai.e.cur + 1}]_vars

\* an enemy two waypoints into a path it planned in an earlier update
C27_Witness ==
    /\ mode = "ai" /\ last = "Enemy.update" /\ halt = "run"
    /\ ai.e.path # << >> /\ ai.e.cur >= 2 /\ ai.dest = << >>

\* C28: whenever a ROAMING enemy with no path plans a roam path, the
\* destination passed to go_to_position lies inside the world and is more
\* than the roaming distance away from the enemy's position; a ROAMING
\* enemy that has a path plans no roam path and keeps following its path.
C28_RoamDestinationFar ==
    [][Updated /\ ai.e.pause <= 0 =>
              /\ \A i \in 1..Len(ai'.roam) :
                    /\ ai'.roam[i] \in Cells
                    /\ Abs(ai'.roam[i] - ai.e.pos) > RoamDist
                    /\ ai'.after.state = "ROAMING" /\ ai'.after.path = << >>
              /\ (ai'.after.state = "ROAMING" /\ ai'.after.path # << >>)
                    => /\ ai'.roam = << >>
                       /\ ai'.e.path \in {ai'.after.path, << >>}]_vars

C28_Witness ==
    /\ mode = "ai" /\ last = "Enemy.update" /\ halt = "run"
    /\ ai.roam # << >> /\ ai.e.path # << >>

\* C29: an update that completes and finds no path for its roam
\* destination leaves the enemy with an empty path, cursor 0 and its
\* position unchanged; an unpaused update of a ROAMING enemy that
\* has no path after the state control plans a roam path again, so the
\* enemy samples a destination on every such tick until a path is found.
C29_NoPathRetries ==
    [][/\ (Updated /\ ai'.roam # << >> /\ ai'.e.path = << >>)
             => /\ ai'.e.cur = 0
                /\ ai'.e.pos = ai.e.pos
                /\ ai'.e.state = "ROAMING"
       /\ (Updated /\ ai.e.pause <= 0 /\ ai.roam # << >> /\ ai.e.path = << >>
              /\ ai'.after.state = "ROAMING")
             => ai'.roam # << >>]_vars

C29_Witness ==
    /\ mode = "ai" /\ last = "Enemy.update" /\ halt = "run"
    /\ ai.roam # << >> /\ ai.e.path = << >> /\ ai.e.cur = 0
    /\ ai.e.pos # 0

\* C30 as stated: a line-of-sight query at distance 0 counts as visible and
\* never fails: a draw marks the tile at the player's position seen, and an
\* update that evaluates the state control with a target on the enemy's
\* position completes with the enemy CHASING.
C30_DegenerateSightIsVisible ==
    [][/\ last' = "on_draw" => fog'.pos \in fog'.seen
       /\ (/\ last' = "Enemy.update"
           /\ ai.e.pause <= 0 /\ ai.e.calc - 1 <= 0
           /\ \E t \in 1..Len(ai.targets) : ai.targets[t] = ai.e.pos)
             => halt' = "run" /\ ai'.after.state = "CHASING"]_vars

C32_ChasingHasTarget ==
    /\ mode = "ai" =>
          /\ ai.e.state = "CHASING" => ai.cur_target \in 1..Len(ai.targets)
          /\ ai.after.state = "CHASING" => ai.after.cur_target \in 1..Len(ai.targets)
          /\ ai.e.state = "CHASING" <=> ai.e.tracking
    /\ mode \in {"game", "held"} => (enemy.state = "CHASING" => enemy.tracking)
    /\ mode = "scenario" => (sc.e.state = "CHASING" => sc.e.tracking)
    /\ last \in {"Enemy.update", "frame", "chase"} => halt # "AttributeError"

\* CHASING the second target of two after the first one went out of sight
C32_Witness ==
    /\ mode = "ai" /\ last = "Enemy.update" /\ halt = "run"
    /\ ai.e.state = "CHASING" /\ Len(ai.targets) = 2
    /\ ai.cur_target = 2 /\ ai.seen = {2} /\ ai.dest # << >>

\* the cursor of e points into its path
CursorInPath(e) == e.path # << >> => 0 <= e.cur /\ e.cur < Len(e.path)

\* C33: whenever an enemy's path is not empty its cursor is at least 0 and
\* less than the length of the path, after any interleaving of planning
\* calls, move_along_path calls and CHASING ticks that clear the path; no
\* update reads a waypoint outside the path.
C33_CursorInsidePath ==
    /\ CursorInPath(ai.e) /\ CursorInPath(mv.e) /\ CursorInPath(enemy)
    /\ CursorInPath(sc.e)
    /\ halt # "IndexError"

\* heading for the last waypoint of a planned path of three or more
C33_Witness ==
    /\ mode = "ai" /\ last = "Enemy.update" /\ halt = "run"
    /\ ai.e.path # << >> /\ ai.e.cur + 1 = Len(ai.e.path) /\ ai.e.cur >= 2
    /\ ai.e.pos # ai.e.path[1]

\* every weapon of the state: the weapon called directly, the player's and
\* the enemy's of a frame, the chasing enemy's, and those of the combat pass
AllWeapons ==
    <<w, player.weapon, enemy.weapon, sc.e.weapon,
      rs.ps[1].weapon, rs.ps[2].weapon, rs.es[1].weapon, rs.es[2].weapon>>

\* C34: for every weapon, whatever attack and update calls reach it, the
\* uses left never increase and stay in 0..MaxUses, and the cooldown timer
\* never exceeds the attack rate.
C34_WeaponBounds ==
    [][\A i \in 1..Len(AllWeapons) :
          /\ AllWeapons[i]'.left <= AllWeapons[i].left
          /\ AllWeapons[i]'.left \in 0..MaxUses
          /\ AllWeapons[i]'.tti <= RateTicks]_vars

\* the spent weapon was attacked with again, idle
C34_Witness ==
    /\ mode = "weapon" /\ last = "Weapon.attack" /\ wres = "False"
    /\ w.left = 0 /\ w.tti <= 0 /\ w.killed

\* some point of the window is far enough from the enemy
HasFarPoint == \E d \in Cells : FarEnough(rm, d)

\* C35: under fair sampling the sampling loop of the ROAMING branch ends,
\* with a plan for a point that is far enough, whenever some point of the
\* window lies farther than roaming_dist from the enemy; when no such point
\* exists the loop is never left, so the update never completes.
C35_SamplingEndsIffFarPoint ==
    /\ (rm.pc = "sampling" /\ HasFarPoint) ~> (rm.pc = "planned")
    /\ [][/\ (rm.pc = "sampling" /\ ~HasFarPoint) => rm'.pc = "sampling"
          /\ (rm.pc = "sampling" /\ rm'.pc = "planned")
                => Abs(rm'.next_pos - rm.pos) > rm.roaming_dist]_vars

\* the loop ended after it had refused a point
C35_Witness ==
    /\ mode = "roam" /\ rm.pc = "planned" /\ rm.rejected
    /\ rm.roaming_dist > 0

\* C36 as stated: after any add_weapon, equip, attack and update calls the
\* weapon in use is none or the very object carried under its type.
C36_EquippedIsCarried ==
    mode = "inventory" =>
        \/ inv.equiped = 0
        \/ inv.weapons[inv.objs[inv.equiped].type] = inv.equiped

\* C37 as stated: after every Player.update the health of the health bar
\* equals the player's hp, for every hp from 0 to max_hp.
C37_BarShowsHp ==
    (mode = "health" /\ last = "health_bar") => hb.health = hb.hp

\* C38: level_clear is False after the construction of the GameState and
\* after every next_map that returns; it becomes True only by the
\* player-exit collision callback, and once True it stays True until the
\* next next_map; next_map raises the map number by exactly 1.
C38_LevelClear ==
    /\ mode = "state" => ~gs.level_clear
    /\ [][/\ last' = "next_map" => gs'.map_no = gs.map_no + 1
          /\ (last' = "next_map" /\ halt' = "run") => ~gs'.level_clear
          /\ (~gs.level_clear /\ gs'.level_clear) => last' = "_handler_player_exit"
          /\ (gs.level_clear /\ ~gs'.level_clear) => last' = "next_map"
          /\ last' = "_handler_player_exit" => gs'.level_clear]_vars

\* a second level cleared
C38_Witness ==
    /\ mode = "state" /\ last = "_handler_player_exit" /\ halt = "run"
    /\ gs.level_clear /\ gs.map_no >= 2

\* C39: while the pause timer of an enemy is above 0 its update takes one
\* tick off the pause timer and changes nothing else: position, state,
\* path, cursor, tracked target, path timer, hp, weapon in use and the
\* weapon's cooldown and uses are as the combat pass of the frame left
\* them, and the enemy stays in the world even with hp 0.
C39_PausedUpdateOnlyCountsDown ==
    [][/\ (last' = "frame" /\ enemy.alive /\ enemy.pause > 0)
             => /\ halt' = "run"
                /\ enemy' = [Resolve(player, enemy).e EXCEPT !.pause = @ - 1]
                /\ enemy'.alive
       /\ (last' = "Enemy.update" /\ ai.e.pause > 0)
             => /\ halt' = "run"
                /\ ai'.e = [ai.e EXCEPT !.pause = @ - 1]
                /\ ai'.cur_target = ai.cur_target]_vars

\* a paused enemy was brought to hp 0 by the combat pass and is still there
C39_Witness ==
    /\ mode = "game" /\ last = "frame" /\ halt = "run"
    /\ enemy.pause >= 1 /\ enemy.hp <= 0 /\ enemy.alive

====
